---- MODULE Spec2Model ----
(***************************************************************************)
(* Model of the model-invocation layer of EquityInsight Pro                *)
(* (services/geminiService.ts = src/unnamed/part_001): the retry executor  *)
(* retryOperation, the error normalizer handleApiError, the caches and the *)
(* report orchestrators.                                                   *)
(*                                                                         *)
(* A failure (a JavaScript value thrown by the SDK or by the service) is a *)
(* record; its message is a record too, describing the text by what the    *)
(* code can observe of it: the keywords its lower-cased text contains and  *)
(* the JSON body the regular expression /\{.*\}/ finds in it.              *)
(***************************************************************************)
EXTENDS Integers, Sequences, FiniteSets, TLC

VARIABLES
  \* one execution of retryOperation
  retryPc,       \* "idle", "invoking", "waiting", "resolved", "thrown"
  loopI,         \* the loop variable i
  lastError,     \* the variable lastError
  invocations,   \* how many times operation() has been called
  waits,         \* the delays passed to wait(), in order
  raised,        \* the failure of the latest invocation, as it was raised
  thrown,        \* the failure retryOperation threw
  returned,      \* the value the latest invocation resolved with
  retryResult,   \* the value retryOperation resolved with
  rejections,    \* history: for each rejection of the operation, its status
                 \* as raised and how retryOperation classified it
  \* one call of handleApiError
  handlePc,      \* "idle", "caught" (in the catch block), "thrown"
  caught,        \* the failure the catch block received, as it received it
  handled,       \* the value handleApiError threw
  \* the service module and the calls of its orchestrators
  apiKey,            \* TRUE when process.env.API_KEY is set
  localStorage,      \* the two persisted items
  storageWorks,      \* FALSE when localStorage is absent or throws
  now,               \* Date.now()
  marketCache,
  screenerCache,
  lastScreenerQuery,
  ipoListCache,
  session,           \* the calls the user interface makes in this session
  inflight,          \* for each target, how many calls await the model
  done,              \* what the latest step did to a call: it started to
                     \* await the model, resolved or rejected
  storedBy,          \* history: per screener cache key, the query of the
                     \* call that stored the entry
  \* one pass of a report orchestrator over a response of the model
  responseText,      \* response.text, a sequence of tokens
  extractKind,       \* the orchestrator
  \* the ChatAssistant component
  messages,          \* the message list
  isTyping,
  sent,              \* how many times handleSend has run
  liteCall,          \* the exchange whose lite call is awaited, 0 if none
  pending,           \* the detailed calls awaited: the id each is matched
                     \* on and its exchange, in the order they were started
  \* history of the calls that await the model
  order,             \* their targets in the order the calls were made, each
                     \* with overtaken: a call for the same cache key that
                     \* was made later has already stored its payload
  lateWrite,         \* the latest step stored the payload of a call that
                     \* had been overtaken
  \* the MarketDashboard component
  mounted,           \* "no" before it is mounted, "yes", "gone" afterwards
  intervalId,        \* the interval set by the effect has not been cleared
  dashData,          \* data, the brief shown, "null" when none
  effectDue,         \* fetchData has changed since the effect last ran
  dashCall           \* what made the latest call of fetchData, and its
                     \* forceRefresh

retryVars ==
  <<retryPc, loopI, lastError, invocations, waits, raised, thrown, returned,
    retryResult, rejections>>

handleVars == <<handlePc, caught, handled>>

cacheVars ==
  <<marketCache, screenerCache, lastScreenerQuery, ipoListCache, localStorage>>

extractVars == <<responseText, extractKind>>

chatVars == <<messages, isTyping, sent, liteCall, pending>>

raceVars == <<order, lateWrite>>

dashVars == <<mounted, intervalId, dashData, effectDue, dashCall>>

serviceVars ==
  <<apiKey, storageWorks, now, cacheVars, session, inflight, done, storedBy,
    extractVars, chatVars, raceVars, dashVars>>

vars == <<retryVars, handleVars, serviceVars>>

\* ------------------------------------------------------------------------
\* Bounds of the model (not program constants)
\* ------------------------------------------------------------------------
\* keywords in the text of a message outside its embedded JSON body
MaxKws == 1
\* orchestrator calls awaiting the model at the same time
MaxInFlight == 2
\* tokens a response text has before and after its core
MaxAffix == 1
\* runs of handleSend
MaxExchanges == 2
\* the last millisecond of the chat's clock
MaxTime == 3

\* ------------------------------------------------------------------------
\* Failures and their messages
\* ------------------------------------------------------------------------
\* Every substring that retryOperation or handleApiError looks for with
\* msg.includes(...), msg being the lower-cased message.
Keywords ==
  {"failed to fetch", "networkerror", "network", "400", "invalid argument",
   "401", "api key", "403", "404", "429", "quota", "resource_exhausted",
   "500", "503", "overloaded", "json", "parse"}

\* The status codes the code distinguishes; 0 stands for an absent (falsy)
\* status, 418 for a status no branch names.
Statuses == {0, 400, 401, 403, 404, 418, 429, 500, 503}

\* The decimal text of a status code, as it appears in a serialized body.
StatusText(c) ==
  CASE c = 400 -> {"400"} [] c = 401 -> {"401"} [] c = 403 -> {"403"}
    [] c = 404 -> {"404"} [] c = 429 -> {"429"} [] c = 500 -> {"500"}
    [] c = 503 -> {"503"} [] OTHER -> {}

\* A message value.
\*   kind  "absent" (undefined or ""), "str", or "nonstring" (a truthy JSON
\*         value that is not a string, e.g. 123)
\*   lit   names a fixed text written in the source ("" otherwise)
\*   kws   the keywords of the lower-cased text outside the JSON body
\*   body  what /\{.*\}/ and JSON.parse make of the text: "none" (no match),
\*         "bad" (match, JSON.parse throws), "noerr" (object without a truthy
\*         error member), "err" (object with an error member)
\*   bcode the error member's code (0: falsy), bmsg the kind of its message,
\*   bkws  the keywords of that nested message
Msg(kind, lit, kws, body, bcode, bmsg, bkws) ==
  [kind |-> kind, lit |-> lit, kws |-> kws, body |-> body,
   bcode |-> bcode, bmsg |-> bmsg, bkws |-> bkws]

NoMsg == Msg("absent", "", {}, "none", 0, "absent", {})

PlainMsg(lit, kws) == Msg("str", lit, kws, "none", 0, "absent", {})

\* The keywords that text.toLowerCase().includes(...) finds in a message:
\* those of the text around the body and those of the serialized body.
TextKws(m) ==
  IF m.kind # "str" THEN {}
  ELSE m.kws \cup (IF m.body = "err"
                     THEN StatusText(m.bcode) \cup
                          (IF m.bmsg = "str" THEN m.bkws ELSE {})
                     ELSE {})

\* String.prototype.includes on a lower-cased text given by its keywords;
\* "networkerror" contains "network".
Includes(kws, k) ==
  k \in kws \/ (k = "network" /\ "networkerror" \in kws)

\* parsed.error.message of a message whose body is "err"
NestedMsg(m) ==
  IF m.bmsg = "str" THEN PlainMsg("", m.bkws)
  ELSE IF m.bmsg = "nonstring" THEN Msg("nonstring", "", {}, "none", 0, "absent", {})
  ELSE NoMsg

\* A failure value.
\*   id          identity of the object (the invocation that created it,
\*               0 for an object created by the service itself)
\*   status,code the status / code fields (0: absent)
\*   msg         the message field
\*   title       "" when absent
\*   isRetryable "undef", "true", "false", or "other" (defined, not boolean)
\*   details     the details field (NoMsg when absent)
\*   syntax      TRUE for an instance of SyntaxError
Failure(id, status, code, msg, title, isRetryable, details, syntax) ==
  [id |-> id, status |-> status, code |-> code, msg |-> msg, title |-> title,
   isRetryable |-> isRetryable, details |-> details, syntax |-> syntax]

RawFailure(status, code, msg) ==
  Failure(0, status, code, msg, "", "undef", NoMsg, FALSE)

NoFailure == RawFailure(0, 0, NoMsg)

KwSets(K, n) == {S \in SUBSET K : Cardinality(S) <= n}

\* The embedded bodies <<body, bcode, bmsg, bkws>> over body codes BC; a
\* nested message holds at most one of the keywords IK.
BodiesOver(BC, IK) ==
  {<<b, 0, "absent", {}>> : b \in {"none", "bad", "noerr"}}
  \cup {<<"err", c, bm, {}>> : c \in BC, bm \in {"absent", "nonstring"}}
  \cup {<<"err", c, "str", ik>> : c \in BC, ik \in KwSets(IK, 1)}

\* The text with keywords kws around the body b
TextMsg(kws, b) == Msg("str", "", kws, b[1], b[2], b[3], b[4])

\* The messages over keywords K, body codes BC and nested keywords IK
MsgsOver(K, BC, IK) ==
  {TextMsg(kws, b) : kws \in KwSets(K, MaxKws), b \in BodiesOver(BC, IK)}

\* ------------------------------------------------------------------------
\* retryOperation (part_001 lines 46-98)
\* ------------------------------------------------------------------------
maxRetries == 3
initialDelay == 2000

\* unwrapForRetry without lines 71-72
unwrapForRetryNoPatch(error) ==
  LET m       == error.msg
      status0 == IF error.status # 0 THEN error.status ELSE error.code
      hasErr  == m.kind = "str" /\ m.body = "err"
  IN  [status |-> IF hasErr /\ m.bcode # 0 THEN m.bcode ELSE status0,
       msg    |-> IF hasErr /\ m.bmsg = "str" THEN m.bkws ELSE TextKws(m),
       error  |-> error]

\* Lines 60-75: the status and lower-cased message used to classify the
\* failure, and the failure object as the block leaves it. The nested code
\* is taken first (line 68); a nested message that is not a string makes
\* line 69 throw, which the inner catch swallows before lines 71-72 run.
unwrapForRetry(error) ==
  LET m       == error.msg
      status0 == IF error.status # 0 THEN error.status ELSE error.code
      hasErr  == m.kind = "str" /\ m.body = "err"
      status1 == IF hasErr /\ m.bcode # 0 THEN m.bcode ELSE status0
      msg1    == IF hasErr /\ m.bmsg = "str" THEN m.bkws ELSE TextKws(m)
      patches == hasErr /\ m.bmsg # "nonstring"
  IN  [status |-> status1,
       msg    |-> msg1,
       error  |-> IF patches
                    THEN [error EXCEPT !.status = status1,
                                       !.msg = IF m.bmsg = "str"
                                                 THEN NestedMsg(m) ELSE m]
                    ELSE error]

\* Lines 78-81
isQuota(status, msg) ==
  \/ status = 429
  \/ Includes(msg, "quota")
  \/ Includes(msg, "resource_exhausted")
  \/ Includes(msg, "429")

\* Line 83
isServer(status, msg) ==
  status = 503 \/ status = 500 \/ Includes(msg, "overloaded")

\* backoffDelay without the doubling
backoffDelayFlat(quota, i) ==
  IF quota THEN 5000 ELSE initialDelay

\* Lines 87-88
backoffDelay(quota, i) ==
  (IF quota THEN 5000 ELSE initialDelay) * (2 ^ i)

\* shouldRetry without the classification
shouldRetryAnyFailure(status, msg, i) ==
  i < maxRetries - 1

\* shouldRetry with the attempt bound off by one
shouldRetryOnceMore(status, msg, i) ==
  (isQuota(status, msg) \/ isServer(status, msg)) /\ i < maxRetries

\* Line 85
shouldRetry(status, msg, i) ==
  (isQuota(status, msg) \/ isServer(status, msg)) /\ i < maxRetries - 1

\* The catch block with the base delay of a server failure for every wait
catchBlockServerDelay(error, i) ==
  LET u == unwrapForRetry(error)
  IN  [retry |-> shouldRetry(u.status, u.msg, i),
       delay |-> backoffDelay(FALSE, i),
       error |-> u.error]

\* The catch block, lines 56-95, for the failure of iteration i.
catchBlock(error, i) ==
  LET u == unwrapForRetry(error)
  IN  [retry |-> shouldRetry(u.status, u.msg, i),
       delay |-> backoffDelay(isQuota(u.status, u.msg), i),
       error |-> u.error]

\* How retryOperation classifies a failure as raised.
Retryable(error) ==
  LET u == unwrapForRetry(error)
  IN  isQuota(u.status, u.msg) \/ isServer(u.status, u.msg)

RateLimited(error) ==
  LET u == unwrapForRetry(error) IN isQuota(u.status, u.msg)

\* ------------------------------------------------------------------------
\* handleApiError (part_001 lines 101-170)
\* ------------------------------------------------------------------------
\* handleApiError without lines 105-114
unwrapForHandleSkipped(error) == error

\* Lines 105-114: the failure object after the nested error is unwrapped.
\* Unlike retryOperation, the nested message is assigned whatever its type.
unwrapForHandle(error) ==
  LET m      == error.msg
      hasErr == m.kind = "str" /\ m.body = "err"
  IN  IF hasErr
        THEN [error EXCEPT
                !.status = IF m.bcode # 0 THEN m.bcode ELSE @,
                !.msg    = IF m.bmsg # "absent" THEN NestedMsg(m) ELSE @]
        ELSE error

\* String(error) for a failure without a message
StringForm == PlainMsg("String(error)", {})

\* The TypeError of line 124 when error.message is not a string
ToLowerCaseTypeError ==
  Failure(0, 0, 0, PlainMsg("error.message.toLowerCase is not a function", {}),
          "", "undef", NoMsg, FALSE)

\* An AnalysisError built by the service
Descriptor(title, message, details, retryable) ==
  Failure(0, 0, 0, PlainMsg(message, {}), title,
          IF retryable THEN "true" ELSE "false", details, FALSE)

\* Lines 131-167 and 116-121: the title, message and isRetryable of the
\* first branch whose condition holds; the generic descriptor otherwise.
classify(status, msg, syntax) ==
  CASE Includes(msg, "failed to fetch") \/ Includes(msg, "networkerror")
         \/ Includes(msg, "network") ->
         <<"Network Connection Error",
           "Unable to connect to the server. Please check your internet connection or try again later.",
           TRUE>>
    [] OTHER ->
  CASE status = 400 \/ Includes(msg, "400") \/ Includes(msg, "invalid argument") ->
         <<"Invalid Request",
           "The request was rejected. This might be due to an invalid ticker symbol or safety filters triggering.",
           FALSE>>
    [] OTHER ->
  CASE status = 401 \/ Includes(msg, "401") \/ Includes(msg, "api key") ->
         <<"Authentication Error",
           "Invalid API Key. Please ensure your API_KEY is correctly set in the environment.",
           FALSE>>
    [] OTHER ->
  CASE status = 403 \/ Includes(msg, "403") ->
         <<"Permission Denied",
           "Your API key does not have access to the required model or region.",
           FALSE>>
    [] OTHER ->
  CASE status = 404 \/ Includes(msg, "404") ->
         <<"Resource Not Found",
           "The requested AI model version might be deprecated or unavailable.",
           FALSE>>
    [] OTHER ->
  CASE status = 429 \/ Includes(msg, "429") \/ Includes(msg, "quota")
         \/ Includes(msg, "resource_exhausted") ->
         <<"Rate Limit Exceeded",
           "You have hit the API quota limit. Please wait a minute before trying again, or check your billing details.",
           TRUE>>
    [] OTHER ->
  CASE status = 500 \/ Includes(msg, "500") ->
         <<"Server Error",
           "Google's AI servers encountered an internal error. Please try again later.",
           TRUE>>
    [] OTHER ->
  CASE status = 503 \/ Includes(msg, "503") \/ Includes(msg, "overloaded") ->
         <<"Service Overloaded",
           "The Gemini API is currently experiencing high traffic. Please retry in a few moments.",
           TRUE>>
    [] OTHER ->
  CASE syntax \/ Includes(msg, "json") \/ Includes(msg, "parse") ->
         <<"Data Parsing Error",
           "The AI response could not be processed correctly. This is usually a temporary glitch.",
           TRUE>>
    [] OTHER ->
         <<"Analysis Failed",
           "An unexpected error occurred while generating the report.",
           TRUE>>

\* Lines 127-129: the test for a failure that is already structured
isStructured(error) ==
  error.title # "" /\ error.msg.kind # "absent" /\ error.isRetryable # "undef"

\* handleApiError with details taken before lines 105-114 run
handleApiErrorRawDetails(error) ==
  LET e       == unwrapForHandle(error)
      details == IF error.msg.kind # "absent" THEN error.msg ELSE StringForm
      status  == IF e.status # 0 THEN e.status ELSE e.code
      row     == classify(status, TextKws(e.msg), e.syntax)
  IN  IF e.msg.kind = "nonstring" THEN ToLowerCaseTypeError
      ELSE IF isStructured(e) THEN e
      ELSE Descriptor(row[1], row[2], details, row[3])

\* handleApiError: the value it throws (it never returns).
handleApiError(error) ==
  LET e       == unwrapForHandle(error)
      details == IF e.msg.kind # "absent" THEN e.msg ELSE StringForm
      status  == IF e.status # 0 THEN e.status ELSE e.code
      row     == classify(status, TextKws(e.msg), e.syntax)
  IN  IF e.msg.kind = "nonstring" THEN ToLowerCaseTypeError
      ELSE IF isStructured(e) THEN e
      ELSE Descriptor(row[1], row[2], details, row[3])

\* The failures an operation raises in the executions of retryOperation
\* explored here.
RetryKeywords == {"quota", "overloaded", "failed to fetch"}

\* Their messages are either plain text or an embedded JSON body alone.
RetryMsgs ==
  {m \in MsgsOver(RetryKeywords, {0, 429, 503}, {"quota", "overloaded"}) :
     m.body = "none" \/ m.kws = {}}

RetryFailures ==
  {RawFailure(st, 0, m) :
     st \in {0, 400, 429, 500, 503}, m \in RetryMsgs \cup {NoMsg}}

\* The values an operation resolves with.
Values == {"v1", "v2"}

\* The service module before any call, with nothing persisted
NoCall == [kind |-> "", query |-> <<>>, force |-> FALSE]

NoneDone ==
  [state |-> "none", call |-> NoCall, value |-> "", error |-> NoFailure,
   fromCache |-> FALSE]

ExtractIdle ==
  /\ responseText = <<>>
  /\ extractKind = ""

RaceIdle ==
  /\ order = <<>>
  /\ lateWrite = FALSE

NoDashCall == [source |-> "none", force |-> FALSE]

DashIdle ==
  /\ mounted = "no"
  /\ intervalId = FALSE
  /\ dashData = "null"
  /\ effectDue = FALSE
  /\ dashCall = NoDashCall

ChatIdle ==
  /\ messages = <<>>
  /\ isTyping = FALSE
  /\ sent = 0
  /\ liteCall = 0
  /\ pending = <<>>

ServiceIdle ==
  /\ apiKey = TRUE
  /\ storageWorks = TRUE
  /\ localStorage = [MARKET |-> [present |-> FALSE, data |-> "", timestamp |-> 0],
                     IPO_LIST |-> [present |-> FALSE, data |-> "", timestamp |-> 0]]
  /\ now = 0
  /\ marketCache = [present |-> FALSE, data |-> "", timestamp |-> 0]
  /\ screenerCache = <<>>
  /\ lastScreenerQuery = <<>>
  /\ ipoListCache = [present |-> FALSE, data |-> "", timestamp |-> 0]
  /\ session = {}
  /\ inflight = <<>>
  /\ done = NoneDone
  /\ storedBy = <<>>
  /\ ExtractIdle
  /\ ChatIdle
  /\ RaceIdle
  /\ DashIdle

RetryIdle ==
  /\ retryPc = "idle"
  /\ loopI = 0
  /\ lastError = NoFailure
  /\ invocations = 0
  /\ waits = <<>>
  /\ raised = NoFailure
  /\ thrown = NoFailure
  /\ returned = ""
  /\ retryResult = ""
  /\ rejections = <<>>

HandleIdle ==
  /\ handlePc = "idle"
  /\ caught = NoFailure
  /\ handled = NoFailure

RetryInit == RetryIdle /\ HandleIdle /\ ServiceIdle

\* retryOperation is called: i = 0 < maxRetries, operation() is invoked.
RetryCall ==
  /\ retryPc = "idle"
  /\ retryPc' = "invoking"
  /\ loopI' = 0
  /\ invocations' = 1
  /\ UNCHANGED <<lastError, waits, raised, thrown, returned, retryResult,
                 rejections>>
  /\ UNCHANGED <<handleVars, serviceVars>>

\* Line 55: the awaited operation resolves; retryOperation returns its value.
OperationResolves(v) ==
  /\ retryPc = "invoking"
  /\ returned' = v
  /\ retryResult' = v
  /\ retryPc' = "resolved"
  /\ UNCHANGED <<loopI, lastError, invocations, waits, raised, thrown,
                 rejections>>
  /\ UNCHANGED <<handleVars, serviceVars>>

\* Lines 56-95: the awaited operation rejects with e; the catch block either
\* starts a wait or throws.
OperationRejects(e) ==
  /\ retryPc = "invoking"
  /\ LET err == [e EXCEPT !.id = invocations]
         c   == catchBlock(err, loopI)
     IN  /\ raised' = err
         /\ rejections' = Append(rejections,
                                 [status    |-> err.status,
                                  quota     |-> RateLimited(err),
                                  retryable |-> Retryable(err)])
         /\ lastError' = c.error
         /\ IF c.retry
              THEN /\ waits' = Append(waits, c.delay)
                   /\ retryPc' = "waiting"
                   /\ UNCHANGED thrown
              ELSE /\ thrown' = c.error
                   /\ retryPc' = "thrown"
                   /\ UNCHANGED waits
  /\ UNCHANGED <<loopI, invocations, returned, retryResult>>
  /\ UNCHANGED <<handleVars, serviceVars>>

\* WaitElapses without the i++ of the loop
WaitElapsesSameIteration ==
  /\ retryPc = "waiting"
  /\ retryPc' = "invoking"
  /\ invocations' = invocations + 1
  /\ UNCHANGED <<loopI, thrown>>
  /\ UNCHANGED <<lastError, waits, raised, returned, retryResult, rejections>>
  /\ UNCHANGED <<handleVars, serviceVars>>

\* Lines 90-91 and 53: the wait ends, i++ and, while i < maxRetries, the
\* operation is invoked again; line 97 otherwise.
WaitElapses ==
  /\ retryPc = "waiting"
  /\ loopI' = loopI + 1
  /\ IF loopI + 1 < maxRetries
       THEN /\ retryPc' = "invoking"
            /\ invocations' = invocations + 1
            /\ UNCHANGED thrown
       ELSE /\ retryPc' = "thrown"
            /\ thrown' = lastError
            /\ UNCHANGED invocations
  /\ UNCHANGED <<lastError, waits, raised, returned, retryResult, rejections>>
  /\ UNCHANGED <<handleVars, serviceVars>>

\* The operation settles.
OperationSettles ==
  /\ retryPc = "invoking"
  /\ \/ \E v \in Values : OperationResolves(v)
     \/ \E e \in RetryFailures : OperationRejects(e)

RetryNext ==
  \/ RetryCall
  \/ OperationSettles
  \/ WaitElapses

SpecRetry == RetryInit /\ [][RetryNext]_vars

\* Every invocation of the operation settles and every wait ends (the
\* timer of wait() fires).
SpecRetryFair ==
  /\ RetryInit
  /\ [][RetryNext]_vars
  /\ WF_vars(OperationSettles)
  /\ WF_vars(WaitElapses)

\* ------------------------------------------------------------------------
\* handleApiError on its own: a catch block receives a failure and hands it
\* to handleApiError
\* ------------------------------------------------------------------------
\* status and code fields of the failures explored
StatusCodePairs ==
  {<<st, 0>> : st \in Statuses} \cup {<<0, 429>>, <<0, 404>>}

HandleBodies ==
  BodiesOver({0, 400, 429, 503}, {"quota", "overloaded", "400", "network", "json"})

HandleKwSets == KwSets(Keywords, MaxKws)

\* A SyntaxError, as JSON.parse throws
SyntaxFailure(kws) ==
  [RawFailure(0, 0, PlainMsg("", kws)) EXCEPT !.syntax = TRUE]

\* Values that carry a title: descriptors thrown inside a try block (Ticker
\* Not Found, whose message quotes the ticker the user typed) and look-alikes
TitledFailures ==
  {Failure(0, st, 0, m, "Ticker Not Found", r, dt, FALSE) :
     st \in {0, 503},
     m \in MsgsOver({"quota"}, {0, 429}, {"quota"}) \cup {NoMsg},
     r \in {"true", "false", "other", "undef"},
     dt \in {NoMsg, PlainMsg("the model's text", {})}}

\* catch (error: any) { ... }
Catch(e) ==
  /\ handlePc = "idle"
  /\ caught' = e
  /\ handlePc' = "caught"
  /\ UNCHANGED handled
  /\ UNCHANGED <<retryVars, serviceVars>>

\* handleApiError(error)
HandleApiError ==
  /\ handlePc = "caught"
  /\ handled' = handleApiError(caught)
  /\ handlePc' = "thrown"
  /\ UNCHANGED caught
  /\ UNCHANGED <<retryVars, serviceVars>>

\* The catch block receives an SDK error with a message
CatchRaw ==
  /\ handlePc = "idle"
  /\ \E sc \in StatusCodePairs, kws \in HandleKwSets, b \in HandleBodies :
        Catch(RawFailure(sc[1], sc[2], TextMsg(kws, b)))

\* ... an error without a message
CatchBare ==
  /\ handlePc = "idle"
  /\ \E sc \in StatusCodePairs : Catch(RawFailure(sc[1], sc[2], NoMsg))

\* ... a SyntaxError
CatchSyntax ==
  /\ handlePc = "idle"
  /\ \E kws \in HandleKwSets : Catch(SyntaxFailure(kws))

\* ... a value that carries a title
CatchTitled ==
  /\ handlePc = "idle"
  /\ \E e \in TitledFailures : Catch(e)

HandleNext ==
  \/ CatchRaw
  \/ CatchBare
  \/ CatchSyntax
  \/ CatchTitled
  \/ HandleApiError

HandleInit == RetryIdle /\ HandleIdle /\ ServiceIdle

SpecHandle == HandleInit /\ [][HandleNext]_vars

\* ------------------------------------------------------------------------
\* The caches and the report orchestrators (part_001 lines 4-40, 276-860)
\* ------------------------------------------------------------------------
MARKET_CACHE_TTL == 5 * 60 * 1000
SCREENER_CACHE_TTL == 15 * 60 * 1000
IPO_CACHE_TTL == 60 * 60 * 1000

\* A cache entry { data, timestamp }, or null
Entry(data, timestamp) ==
  [present |-> TRUE, data |-> data, timestamp |-> timestamp]

NoEntry == [present |-> FALSE, data |-> "", timestamp |-> 0]

\* Query strings are sequences of characters.
Trim(q) ==
  LET keep == {n \in 1..Len(q) : q[n] # " "}
  IN  IF keep = {} THEN <<>>
      ELSE LET lo == CHOOSE n \in keep : \A k \in keep : n <= k
               hi == CHOOSE n \in keep : \A k \in keep : n >= k
           IN  SubSeq(q, lo, hi)

LowerChar(c) ==
  CASE c = "A" -> "a" [] c = "L" -> "l" [] c = "P" -> "p"
    [] c = "C" -> "c" [] c = "S" -> "s" [] c = "T" -> "t" [] OTHER -> c

ToLowerCase(q) == [n \in 1..Len(q) |-> LowerChar(q[n])]

\* getCacheKey without the case folding
getCacheKeyTrimOnly(query) == Trim(query)

\* Line 527
getCacheKey(query) == ToLowerCase(Trim(query))

\* The screener queries explored: three spellings of one query and another
AAPL == <<"A", "A", "P", "L">>

Spellings == {AAPL, <<" ", "a", "a", "p", "l", " ">>, <<"A", "a", "p", "l">>}

TCS == <<"t", "c", "s">>

Queries == Spellings \cup {TCS}

NoQuery == <<>>

CacheKeys == {getCacheKey(q) : q \in Queries}

\* The seven orchestrators
ReportKinds == {"analysis", "market", "screener", "ipoList", "ipoReport"}

ChatKinds == {"chatLite", "chatDetailed"}

Kinds == ReportKinds \cup ChatKinds

CachedKinds == {"market", "screener", "ipoList"}

\* A call: the orchestrator, its query (screenStocks only) and forceRefresh
Call(kind, query, force) == [kind |-> kind, query |-> query, force |-> force]

\* What a call that awaits the model still depends on: forceRefresh is read
\* before the model is invoked only.
Target(kind, query) == [kind |-> kind, query |-> query]

Targets ==
  {Target(k, NoQuery) : k \in Kinds \ {"screener"}}
  \cup {Target("screener", q) : q \in Queries}

\* The text of a model response, by what the orchestrators observe of it:
\*   empty    response.text is falsy
\*   fenced   it contains ``` or ```json markers
\*   refusal  its lower-cased text contains one of the refusalPatterns
\*   short    after the markers are removed and it is trimmed, its length
\*            is below 500
\*   json     what indexOf('{'), lastIndexOf('}') and JSON.parse make of it:
\*            "none" (a brace is missing), "invalid" (JSON.parse throws) or
\*            "object"
\*   value    the object parsed; member: whether it has the matches / ipos
\*            member the list orchestrators read
\*   synKws   the keywords of the SyntaxError message when JSON.parse throws
\*   stripped the text after the markers are removed and it is trimmed
Text(empty, fenced, refusal, short, json, value, member, synKws) ==
  [empty |-> empty, fenced |-> fenced, refusal |-> refusal, short |-> short,
   json |-> json, value |-> value, member |-> member, synKws |-> synKws,
   stripped |-> <<"the model's text">>]

EmptyText == Text(TRUE, FALSE, FALSE, TRUE, "none", "", FALSE, {})

Payloads == {"p1", "p2"}

JsonText(fenced, value, member) ==
  Text(FALSE, fenced, FALSE, FALSE, "object", value, member, {})

PlainText == JsonText(FALSE, "p1", TRUE)

\* The responses explored
OrchTexts ==
  {EmptyText, PlainText, JsonText(TRUE, "p2", TRUE)}
  \cup {JsonText(FALSE, "p1", FALSE),
        Text(FALSE, FALSE, TRUE, TRUE, "none", "", FALSE, {}),
        Text(FALSE, FALSE, FALSE, TRUE, "none", "", FALSE, {}),
        Text(FALSE, TRUE, FALSE, FALSE, "invalid", "", FALSE, {"json"})}

\* The outcome of one invocation of ai.models.generateContent
Responds(text) == [ok |-> TRUE, text |-> text, error |-> NoFailure]

Rejects(error) == [ok |-> FALSE, text |-> EmptyText, error |-> error]

\* The rejections explored
OrchFailures ==
  {RawFailure(400, 0, PlainMsg("", {})),
   RawFailure(429, 0, PlainMsg("", {"quota"})),
   RawFailure(503, 0, PlainMsg("", {"overloaded"})),
   RawFailure(0, 0, PlainMsg("", {"failed to fetch"})),
   RawFailure(0, 0, TextMsg({}, <<"err", 429, "str", {"quota"}>>)),
   RawFailure(0, 0, TextMsg({}, <<"err", 0, "nonstring", {}>>)),
   Failure(0, 0, 0, PlainMsg("", {}), "Upstream", "other", NoMsg, FALSE)}

Outcomes ==
  {Responds(t) : t \in OrchTexts} \cup {Rejects(f) : f \in OrchFailures}

\* What the operation does over the invocations retryOperation makes of
\* it: up to maxRetries outcomes, every one but the last a retried
\* rejection; a retryable rejection comes last only in a run of maxRetries.
Retried == {g \in OrchFailures : Retryable(g)}

Runs ==
  {run \in {<<o>> : o \in Outcomes}
          \cup {<<Rejects(f), o>> : f \in Retried, o \in Outcomes}
          \cup {<<Rejects(f), Rejects(f), o>> : f \in Retried, o \in Outcomes} :
     LET o == run[Len(run)]
     IN  /\ o.ok \/ ~Retryable(o.error) \/ Len(run) = maxRetries
         /\ Len(run) > 1 => o = Rejects(run[1].error) \/ o = Responds(PlainText)}

\* The runs explored in a session of two targets
PlainRuns ==
  {<<Responds(JsonText(FALSE, v, TRUE))>> : v \in Payloads}
  \cup {<<Rejects(RawFailure(400, 0, PlainMsg("", {})))>>}

\* retryOperation over a run, from iteration i: what it settles with and
\* how many invocations it made.
RECURSIVE retryOperation(_, _)
retryOperation(run, i) ==
  LET o == run[i + 1]
  IN  IF o.ok
        THEN [ok |-> TRUE, text |-> o.text, error |-> NoFailure,
              invocations |-> i + 1]
        ELSE LET c == catchBlock([o.error EXCEPT !.id = i + 1], i)
             IN  IF c.retry
                   THEN retryOperation(run, i + 1)
                   ELSE [ok |-> FALSE, text |-> EmptyText, error |-> c.error,
                         invocations |-> i + 1]

\* The AnalysisError thrown when the credential is missing
MissingApiKey ==
  Failure(0, 0, 0, PlainMsg("API Key is not configured.", {}),
          "Missing API Key", "false", NoMsg, FALSE)

\* new Error("API Key Missing") of the chat orchestrators
ApiKeyMissingError == RawFailure(0, 0, PlainMsg("API Key Missing", {"api key"}))

\* Line 328: the refusal descriptor; its details are the model's text
TickerNotFound(text) ==
  Failure(0, 0, 0,
          PlainMsg("Unable to generate a report for the ticker.", {}),
          "Ticker Not Found", "false", PlainMsg(text, {}), FALSE)

\* An error whose message names neither parsing nor JSON
FailedToParseUnnamed(kind) == RawFailure(0, 0, PlainMsg("Failed", {}))

\* new Error("Failed to parse ...") of a report orchestrator
FailedToParse(kind) ==
  RawFailure(0, 0,
    IF kind \in {"analysis", "market"}
      THEN PlainMsg("Failed to parse: Invalid JSON structure", {"parse", "json"})
      ELSE PlainMsg("Failed to parse", {"parse"}))

\* new Error("Empty response received. ...") of getMarketOverview
EmptyResponseError ==
  RawFailure(0, 0, PlainMsg("Empty response received.", {}))

\* The part of an orchestrator's try block after the model has responded:
\* the value it returns, or the failure it throws into its catch block.
extract(kind, text) ==
  IF kind = "market" /\ text.empty
    THEN [ok |-> FALSE, value |-> "", error |-> EmptyResponseError]
  ELSE IF kind = "analysis" /\ ~text.empty /\ text.short /\ text.refusal
    THEN [ok |-> FALSE, value |-> "", error |-> TickerNotFound(text.stripped)]
  ELSE IF text.empty \/ text.json = "none"
    THEN [ok |-> FALSE, value |-> "", error |-> FailedToParse(kind)]
  ELSE IF text.json = "invalid"
    THEN [ok |-> FALSE, value |-> "", error |-> SyntaxFailure(text.synKws)]
  ELSE [ok |-> TRUE,
        value |-> IF kind \in {"screener", "ipoList"} /\ ~text.member
                    THEN "undefined" ELSE text.value,
        error |-> NoFailure]

\* The targets of a session: one, or two screener queries (of one cache
\* key, or the first spelling and the other query), or a report that is
\* never cached and a cached one.
Sessions ==
  {{t} : t \in Targets}
  \cup {{Target("screener", q), Target("screener", r)} : q, r \in Spellings}
  \cup {{Target("screener", AAPL), Target("screener", TCS)}}
  \cup {{t, u} : t \in {x \in Targets : x.kind \in {"analysis", "ipoReport"}},
                  u \in {x \in Targets : x.kind \in CachedKinds}}

\* The key of the cache entry a call reads and writes
KeyOf(call) ==
  CASE call.kind = "market" -> <<"MARKET">>
    [] call.kind = "ipoList" -> <<"IPO_LIST">>
    [] OTHER -> getCacheKey(call.query)

TTL(kind) ==
  CASE kind = "market" -> MARKET_CACHE_TTL
    [] kind = "screener" -> SCREENER_CACHE_TTL
    [] kind = "ipoList" -> IPO_CACHE_TTL

\* The values of Date.now() a session is explored at: its start and, for
\* each TTL of its caches, the last millisecond before the TTL has elapsed
\* and the first after.
InstantsOf(S) ==
  {0} \cup UNION {{TTL(t.kind) - 1, TTL(t.kind)} :
                    t \in {x \in S : x.kind \in CachedKinds}}

\* marketCache, screenerCache.get(cacheKey) or ipoListCache
EntryOf(call) ==
  CASE call.kind = "market" -> marketCache
    [] call.kind = "ipoList" -> ipoListCache
    [] OTHER -> screenerCache[getCacheKey(call.query)]

\* The entry is served up to and including the millisecond the TTL elapses
FreshInclusive(entry, ttl) ==
  entry.present /\ now - entry.timestamp <= ttl

\* Lines 447, 535, 637: cached && (Date.now() - cached.timestamp < TTL)
Fresh(entry, ttl) ==
  entry.present /\ now - entry.timestamp < ttl

\* loadCache without the try/catch and the window check
loadCacheUnguarded(key) == localStorage[key]

\* Lines 13-19: null when localStorage is absent, throws or holds nothing
loadCache(key) == IF storageWorks THEN localStorage[key] ELSE NoEntry

\* Lines 21-26: localStorage after saveCache(key, data, timestamp)
saveCache(key, data, timestamp) ==
  IF storageWorks
    THEN [localStorage EXCEPT ![key] = Entry(data, timestamp)]
    ELSE localStorage

NothingStored == [MARKET |-> NoEntry, IPO_LIST |-> NoEntry]

StoredEarlier == [MARKET |-> Entry("p1", 0), IPO_LIST |-> Entry("p1", 0)]

\* What a previous session may have left in localStorage
StoredBefore == {NothingStored, StoredEarlier}

\* Module initialisation, lines 4-40. A session that screens stocks is
\* explored with a working store that holds both items.
ServiceInit ==
  /\ apiKey \in BOOLEAN
  /\ storageWorks \in BOOLEAN
  /\ localStorage \in StoredBefore
  /\ now = 0
  /\ marketCache = loadCache("MARKET")
  /\ screenerCache = [k \in CacheKeys |-> NoEntry]
  /\ lastScreenerQuery = NoQuery
  /\ ipoListCache = loadCache("IPO_LIST")
  /\ session \in Sessions
  /\ (\E t \in session : t.kind = "screener") =>
        storageWorks /\ localStorage = StoredEarlier
  /\ inflight = [t \in session |-> 0]
  /\ done = NoneDone
  /\ storedBy = [k \in CacheKeys |-> NoQuery]
  /\ ExtractIdle
  /\ ChatIdle
  /\ RaceIdle
  /\ DashIdle

\* forceRefresh is recorded for the step a call starts with only.
Settled(call, state, value, error, fromCache) ==
  [state |-> state, call |-> call, value |-> value, error |-> error,
   fromCache |-> fromCache]

InFlight == {t \in session : inflight[t] > 0}

NumInFlight(f) ==
  LET RECURSIVE Sum(_)
      Sum(S) == IF S = {} THEN 0
                ELSE LET c == CHOOSE x \in S : TRUE
                     IN  f[c] + Sum(S \ {c})
  IN  Sum(DOMAIN f)

\* A call that has reached its await
Awaiting(t) == [target |-> t, overtaken |-> FALSE]

\* Start with forceRefresh ignored
StartIgnoringForce(call) ==
  /\ NumInFlight(inflight) < MaxInFlight
  /\ IF ~apiKey
       THEN /\ done' = Settled(call, "rejected", "",
                               IF call.kind \in ChatKinds
                                 THEN ApiKeyMissingError ELSE MissingApiKey,
                               FALSE)
            /\ UNCHANGED <<inflight, lastScreenerQuery, order>>
       ELSE IF /\ call.kind \in CachedKinds
               /\ Fresh(EntryOf(call), TTL(call.kind))
         THEN /\ done' = Settled(call, "resolved", EntryOf(call).data,
                                 NoFailure, TRUE)
              /\ lastScreenerQuery' =
                    IF call.kind = "screener" THEN call.query
                    ELSE lastScreenerQuery
              /\ UNCHANGED <<inflight, order>>
         ELSE /\ inflight' =
                    [inflight EXCEPT ![Target(call.kind, call.query)] = @ + 1]
              /\ done' = Settled(call, "started", "", NoFailure, FALSE)
              /\ order' = Append(order, Awaiting(Target(call.kind, call.query)))
              /\ UNCHANGED lastScreenerQuery
  /\ UNCHANGED <<marketCache, screenerCache, ipoListCache, localStorage>>
  /\ lateWrite' = FALSE
  /\ UNCHANGED <<apiKey, storageWorks, now, session, storedBy>>
  /\ UNCHANGED <<retryVars, handleVars, extractVars, chatVars>>

\* An orchestrator is called; it runs up to its first await. Without the
\* credential it throws; a fresh entry is returned unless forceRefresh;
\* otherwise the model is invoked.
Start(call) ==
  /\ NumInFlight(inflight) < MaxInFlight
  /\ IF ~apiKey
       THEN /\ done' = Settled(call, "rejected", "",
                               IF call.kind \in ChatKinds
                                 THEN ApiKeyMissingError ELSE MissingApiKey,
                               FALSE)
            /\ UNCHANGED <<inflight, lastScreenerQuery, order>>
       ELSE IF /\ call.kind \in CachedKinds
               /\ ~call.force
               /\ Fresh(EntryOf(call), TTL(call.kind))
         THEN /\ done' = Settled(call, "resolved", EntryOf(call).data,
                                 NoFailure, TRUE)
              /\ lastScreenerQuery' =
                    IF call.kind = "screener" THEN call.query
                    ELSE lastScreenerQuery
              /\ UNCHANGED <<inflight, order>>
         ELSE /\ inflight' =
                    [inflight EXCEPT ![Target(call.kind, call.query)] = @ + 1]
              /\ done' = Settled(call, "started", "", NoFailure, FALSE)
              /\ order' = Append(order, Awaiting(Target(call.kind, call.query)))
              /\ UNCHANGED lastScreenerQuery
  /\ UNCHANGED <<marketCache, screenerCache, ipoListCache, localStorage>>
  /\ lateWrite' = FALSE
  /\ UNCHANGED <<apiKey, storageWorks, now, session, storedBy>>
  /\ UNCHANGED <<retryVars, handleVars, extractVars, chatVars>>

\* Succeed, with the market cache written by every orchestrator
SucceedStoringAll(call, value) ==
  /\ done' = Settled(call, "resolved", value, NoFailure, FALSE)
  /\ marketCache' = Entry(value, now)
  /\ ipoListCache' =
        IF call.kind = "ipoList" THEN Entry(value, now) ELSE ipoListCache
  /\ screenerCache' =
        IF call.kind = "screener"
          THEN [screenerCache EXCEPT ![getCacheKey(call.query)] = Entry(value, now)]
          ELSE screenerCache
  /\ lastScreenerQuery' =
        IF call.kind = "screener" THEN call.query ELSE lastScreenerQuery
  /\ localStorage' =
        CASE call.kind = "market" -> saveCache("MARKET", value, now)
          [] call.kind = "ipoList" -> saveCache("IPO_LIST", value, now)
          [] OTHER -> localStorage
  /\ storedBy' =
        IF call.kind = "screener"
          THEN [storedBy EXCEPT ![getCacheKey(call.query)] = call.query]
          ELSE storedBy

\* A report orchestrator parsed the payload: it updates its cache, if it
\* has one, and returns the payload.
Succeed(call, value) ==
  /\ done' = Settled(call, "resolved", value, NoFailure, FALSE)
  /\ marketCache' =
        IF call.kind = "market" THEN Entry(value, now) ELSE marketCache
  /\ ipoListCache' =
        IF call.kind = "ipoList" THEN Entry(value, now) ELSE ipoListCache
  /\ screenerCache' =
        IF call.kind = "screener"
          THEN [screenerCache EXCEPT ![getCacheKey(call.query)] = Entry(value, now)]
          ELSE screenerCache
  /\ lastScreenerQuery' =
        IF call.kind = "screener" THEN call.query ELSE lastScreenerQuery
  /\ localStorage' =
        CASE call.kind = "market" -> saveCache("MARKET", value, now)
          [] call.kind = "ipoList" -> saveCache("IPO_LIST", value, now)
          [] OTHER -> localStorage
  /\ storedBy' =
        IF call.kind = "screener"
          THEN [storedBy EXCEPT ![getCacheKey(call.query)] = call.query]
          ELSE storedBy

\* Fail with the entry of the call's key evicted
FailEvicting(call, error) ==
  /\ done' = Settled(call, "rejected", "", handleApiError(error), FALSE)
  /\ marketCache' = IF call.kind = "market" THEN NoEntry ELSE marketCache
  /\ ipoListCache' = IF call.kind = "ipoList" THEN NoEntry ELSE ipoListCache
  /\ screenerCache' =
        IF call.kind = "screener"
          THEN [screenerCache EXCEPT ![getCacheKey(call.query)] = NoEntry]
          ELSE screenerCache
  /\ UNCHANGED <<lastScreenerQuery, localStorage, storedBy>>

\* A report orchestrator's catch block: handleApiError(error)
Fail(call, error) ==
  /\ done' = Settled(call, "rejected", "", handleApiError(error), FALSE)
  /\ UNCHANGED <<cacheVars, storedBy>>

\* chatText without the fixed text for an empty response
chatTextOrEmpty(kind, r) ==
  IF ~r.ok
    THEN (IF kind = "chatLite"
            THEN "I'm thinking..."
            ELSE "Sorry, I encountered an error fetching detailed information.")
  ELSE IF r.text.empty
    THEN ""
  ELSE "the model's text"

\* Lines 820-823 and 855-858: the model's text or a fixed text
chatText(kind, r) ==
  IF ~r.ok
    THEN (IF kind = "chatLite"
            THEN "I'm thinking..."
            ELSE "Sorry, I encountered an error fetching detailed information.")
  ELSE IF r.text.empty
    THEN (IF kind = "chatLite"
            THEN "I'm processing that..."
            ELSE "I couldn't generate a detailed response.")
  ELSE "the model's text"

\* A chat orchestrator returns the model's text or a fixed text.
Chat(call, r) ==
  /\ done' = Settled(call, "resolved", chatText(call.kind, r), NoFailure, FALSE)
  /\ UNCHANGED <<cacheVars, storedBy>>

\* seq without its i-th element
Remove(seq, i) == SubSeq(seq, 1, i - 1) \o SubSeq(seq, i + 1, Len(seq))

\* The calls still awaited once the call made i-th has stored its payload
\* for target t: those made before it for the same cache key are overtaken
Overtake(seq, i, t) ==
  [k \in 1..Len(seq) |->
     IF /\ k < i
        /\ seq[k].target.kind = t.kind
        /\ KeyOf(Call(seq[k].target.kind, seq[k].target.query, FALSE))
             = KeyOf(Call(t.kind, t.query, FALSE))
       THEN [seq[k] EXCEPT !.overtaken = TRUE]
       ELSE seq[k]]

\* Settle with the payload of an overtaken call dropped
SettleUnlessOvertaken(t, run) ==
  /\ inflight' = [inflight EXCEPT ![t] = @ - 1]
  /\ LET call == Call(t.kind, t.query, FALSE)
         r == retryOperation(run, 0)
         x == extract(t.kind, r.text)
         stores == t.kind \in CachedKinds /\ r.ok /\ x.ok
     IN  \E i \in 1..Len(order) :
           /\ order[i].target = t
           /\ IF t.kind \in ChatKinds THEN Chat(call, r)
              ELSE IF ~r.ok THEN Fail(call, r.error)
              ELSE IF ~x.ok THEN Fail(call, x.error)
              ELSE IF order[i].overtaken
                THEN /\ done' = Settled(call, "resolved", x.value, NoFailure, FALSE)
                     /\ UNCHANGED <<cacheVars, storedBy>>
              ELSE Succeed(call, x.value)
           /\ order' = IF stores THEN Overtake(Remove(order, i), i, t)
                       ELSE Remove(order, i)
           /\ lateWrite' = (stores /\ order[i].overtaken)
  /\ UNCHANGED <<apiKey, storageWorks, now, session>>
  /\ UNCHANGED <<retryVars, handleVars, extractVars, chatVars>>

\* The retry-wrapped model call of an orchestrator settles, and the
\* orchestrator runs to its end.
Settle(t, run) ==
  /\ inflight' = [inflight EXCEPT ![t] = @ - 1]
  /\ LET call == Call(t.kind, t.query, FALSE)
         r == retryOperation(run, 0)
         x == extract(t.kind, r.text)
         stores == t.kind \in CachedKinds /\ r.ok /\ x.ok
     IN  /\ IF t.kind \in ChatKinds THEN Chat(call, r)
            ELSE IF ~r.ok THEN Fail(call, r.error)
            ELSE IF ~x.ok THEN Fail(call, x.error)
            ELSE Succeed(call, x.value)
         /\ \E i \in 1..Len(order) :
              /\ order[i].target = t
              /\ order' = IF stores THEN Overtake(Remove(order, i), i, t)
                          ELSE Remove(order, i)
              /\ lateWrite' = (stores /\ order[i].overtaken)
  /\ UNCHANGED <<apiKey, storageWorks, now, session>>
  /\ UNCHANGED <<retryVars, handleVars, extractVars, chatVars>>

\* Time passes.
Tick ==
  /\ \E t \in InstantsOf(session) : t > now /\ now' = t
  /\ done' = NoneDone
  /\ lateWrite' = FALSE
  /\ UNCHANGED <<apiKey, storageWorks, cacheVars, session, inflight, storedBy,
                 order>>
  /\ UNCHANGED <<retryVars, handleVars, extractVars, chatVars, dashVars>>

StartAny ==
  /\ \E t \in session :
       \E force \in IF t.kind \in CachedKinds THEN BOOLEAN ELSE {FALSE} :
         Start(Call(t.kind, t.query, force))
  /\ UNCHANGED dashVars

\* The runs explored: all of them in a session of one target
RunsOf(S) == IF Cardinality(S) = 1 THEN Runs ELSE PlainRuns

SettleAny ==
  /\ \E t \in InFlight : \E run \in RunsOf(session) : Settle(t, run)
  /\ UNCHANGED dashVars

Next ==
  \/ StartAny
  \/ SettleAny
  \/ Tick

Init == RetryIdle /\ HandleIdle /\ ServiceInit

Spec == Init /\ [][Next]_vars

\* ------------------------------------------------------------------------
\* MarketDashboard (IPODashboard.tsx lines 469-516): fetchData, the effect
\* that loads the brief and sets the interval, and its cleanup
\* ------------------------------------------------------------------------
Market == Target("market", NoQuery)

DashCall(source, force) == [source |-> source, force |-> force]

\* fetchData(forceRefresh), lines 475-504, up to the end of the step in
\* which getMarketOverview is called: a brief served from the cache is
\* passed to setData, which changes data, and with it fetchData, only
\* when no brief was shown (the brief shown is the one in the cache)
fetchData(source, forceRefresh) ==
  /\ Start(Call("market", NoQuery, forceRefresh))
  /\ dashCall' = DashCall(source, forceRefresh)
  /\ dashData' = IF done'.fromCache THEN done'.value ELSE dashData
  /\ effectDue' = IF done'.fromCache THEN dashData = "null" ELSE
                  IF source = "effect" THEN FALSE ELSE effectDue

\* The component is mounted (App.tsx line 134); its effects run next
DashMount ==
  /\ mounted = "no"
  /\ mounted' = "yes"
  /\ effectDue' = TRUE
  /\ dashCall' = NoDashCall
  /\ done' = NoneDone
  /\ lateWrite' = FALSE
  /\ UNCHANGED <<intervalId, dashData>>
  /\ UNCHANGED <<apiKey, storageWorks, now, cacheVars, session, inflight,
                 storedBy, order>>
  /\ UNCHANGED <<retryVars, handleVars, extractVars, chatVars>>

\* Lines 506-516: the effect runs after the mount and whenever fetchData
\* has changed: the previous interval is cleared, fetchData(false) is
\* called and a new interval is set
RunEffect ==
  /\ mounted = "yes"
  /\ effectDue
  /\ fetchData("effect", FALSE)
  /\ intervalId' = TRUE
  /\ UNCHANGED mounted

\* Lines 510-513: the interval fires
IntervalFires ==
  /\ intervalId
  /\ fetchData("interval", TRUE)
  /\ UNCHANGED <<mounted, intervalId>>

\* Lines 549, 574, 590: the refresh and retry buttons
UserRefreshes ==
  /\ mounted = "yes"
  /\ fetchData("user", TRUE)
  /\ UNCHANGED <<mounted, intervalId>>

\* Lines 487-503: a call of getMarketOverview that awaited the model
\* settles; while the component is mounted a result is passed to setData
DashSettles ==
  /\ Market \in InFlight
  /\ \E run \in Runs : Settle(Market, run)
  /\ dashCall' = NoDashCall
  /\ IF mounted = "yes" /\ done'.state = "resolved"
       THEN dashData' = done'.value /\ effectDue' = TRUE
       ELSE UNCHANGED <<dashData, effectDue>>
  /\ UNCHANGED <<mounted, intervalId>>

\* The unmount without the cleanup of line 515
DashUnmountKeepingInterval ==
  /\ mounted = "yes"
  /\ mounted' = "gone"
  /\ effectDue' = FALSE
  /\ dashCall' = NoDashCall
  /\ done' = NoneDone
  /\ lateWrite' = FALSE
  /\ UNCHANGED <<intervalId, dashData>>
  /\ UNCHANGED <<apiKey, storageWorks, now, cacheVars, session, inflight,
                 storedBy, order>>
  /\ UNCHANGED <<retryVars, handleVars, extractVars, chatVars>>

\* The view changes (App.tsx line 134): the component is unmounted and
\* the cleanup of line 515 clears the interval
DashUnmount ==
  /\ mounted = "yes"
  /\ mounted' = "gone"
  /\ intervalId' = FALSE
  /\ effectDue' = FALSE
  /\ dashCall' = NoDashCall
  /\ done' = NoneDone
  /\ lateWrite' = FALSE
  /\ UNCHANGED dashData
  /\ UNCHANGED <<apiKey, storageWorks, now, cacheVars, session, inflight,
                 storedBy, order>>
  /\ UNCHANGED <<retryVars, handleVars, extractVars, chatVars>>

\* Time passes.
DashClock ==
  /\ \E t \in InstantsOf(session) : t > now /\ now' = t
  /\ done' = NoneDone
  /\ lateWrite' = FALSE
  /\ dashCall' = NoDashCall
  /\ UNCHANGED <<mounted, intervalId, dashData, effectDue>>
  /\ UNCHANGED <<apiKey, storageWorks, cacheVars, session, inflight, storedBy,
                 order>>
  /\ UNCHANGED <<retryVars, handleVars, extractVars, chatVars>>

DashInit ==
  /\ RetryIdle
  /\ HandleIdle
  /\ ServiceInit
  /\ session = {Market}

DashNext ==
  \/ DashMount
  \/ RunEffect
  \/ IntervalFires
  \/ UserRefreshes
  \/ DashSettles
  \/ DashUnmount
  \/ DashClock

SpecDash == DashInit /\ [][DashNext]_vars

\* ------------------------------------------------------------------------
\* The response extraction of the report orchestrators over texts
\* (part_001 lines 319-344, 476-495, 568-585, 666-680, 776-786)
\* ------------------------------------------------------------------------
\* A text is a sequence of tokens: braces, the marker ``` (```json is the
\* marker followed by the word json), a blank, the number 1, JSON members,
\* a refusal phrase in two spellings and 482 characters of prose.
\* The marker of three backquotes
Fence == "[fence]"

MemberA == "\"a\":1"

MemberMatches == "\"matches\":[]"

MemberIpos == "\"ipos\":[]"

Members == {MemberA, MemberMatches, MemberIpos}

Refusal == "no data available"

RefusalCaps == "No Data Available"

Prose == "prose of 482 characters"

\* String.prototype.length, token by token
TokenLength(t) ==
  CASE t \in {"{", "}", " ", "1"} -> 1
    [] t = Fence -> 3
    [] t = "json" -> 4
    [] t = MemberA -> 5
    [] t = MemberMatches -> 12
    [] t = MemberIpos -> 9
    [] t \in {Refusal, RefusalCaps} -> 17
    [] t = Prose -> 482

RECURSIVE Length(_)
Length(text) ==
  IF text = <<>> THEN 0 ELSE TokenLength(Head(text)) + Length(Tail(text))

\* text.replace(/```json/g, ""): one pass from the left
RECURSIVE replaceJsonFences(_)
replaceJsonFences(text) ==
  IF text = <<>> THEN <<>>
  ELSE IF Len(text) >= 2 /\ text[1] = Fence /\ text[2] = "json"
    THEN replaceJsonFences(SubSeq(text, 3, Len(text)))
  ELSE <<Head(text)>> \o replaceJsonFences(Tail(text))

\* text.replace(/```/g, "")
replaceFences(text) == SelectSeq(text, LAMBDA t : t # Fence)

\* Line 320: the two replacements, then trim()
stripFences(text) == Trim(replaceFences(replaceJsonFences(text)))

\* text.toLowerCase(), token by token
LowerToken(t) == IF t = RefusalCaps THEN Refusal ELSE t

\* Lines 323-326
refusalPatterns ==
  {"cannot find", "unable to find", "no data available", "doesn't exist",
   "don't have information", "valid ticker", "not a valid"}

\* The refusal test without toLowerCase()
isRefusalCaseSensitive(text) ==
  \E n \in 1..Len(text) : text[n] \in refusalPatterns

\* refusalPatterns.some(p => text.toLowerCase().includes(p))
isRefusal(text) ==
  \E n \in 1..Len(text) : LowerToken(text[n]) \in refusalPatterns

\* text.indexOf(c) and text.lastIndexOf(c): from 0, -1 when c is absent
indexOf(text, c) ==
  LET at == {n \in 1..Len(text) : text[n] = c}
  IN  IF at = {} THEN -1 ELSE (CHOOSE n \in at : \A k \in at : n <= k) - 1

lastIndexOf(text, c) ==
  LET at == {n \in 1..Len(text) : text[n] = c}
  IN  IF at = {} THEN -1 ELSE (CHOOSE n \in at : \A k \in at : n >= k) - 1

\* text.substring(start, end): an argument below 0 counts as 0, and the
\* arguments are swapped when start > end
substring(text, start, end) ==
  LET from == IF start < 0 THEN 0 ELSE start
      to == IF end < 0 THEN 0 ELSE end
  IN  IF from <= to THEN SubSeq(text, from + 1, to)
      ELSE SubSeq(text, to + 1, from)

\* JSON.parse(text): an object of members, the number 1, or a SyntaxError;
\* blanks between the tokens are insignificant.
JSONParse(text) ==
  LET j == SelectSeq(text, LAMBDA t : t # " ")
  IN  IF j = <<"1">>
        THEN [ok |-> TRUE, type |-> "number", members |-> {}]
      ELSE IF /\ Len(j) >= 2
              /\ j[1] = "{"
              /\ j[Len(j)] = "}"
              /\ \A n \in 2..(Len(j) - 1) : j[n] \in Members
        THEN [ok |-> TRUE, type |-> "object",
              members |-> {j[n] : n \in 2..(Len(j) - 1)}]
      ELSE [ok |-> FALSE, type |-> "", members |-> {}]

\* The value parsed, written out
ValueText(parsed) ==
  CASE parsed.type = "number" -> "1"
    [] parsed.members = {} -> "{}"
    [] parsed.members = {MemberA} -> "{a}"
    [] parsed.members = {MemberMatches} -> "{matches}"
    [] parsed.members = {MemberIpos} -> "{ipos}"
    [] parsed.members = {MemberA, MemberMatches} -> "{a,matches}"
    [] parsed.members = {MemberA, MemberIpos} -> "{a,ipos}"
    [] parsed.members = {MemberMatches, MemberIpos} -> "{matches,ipos}"
    [] OTHER -> "{a,matches,ipos}"

\* json.matches of screenStocks, json.ipos of fetchIPOList
ListMember(kind) == IF kind = "screener" THEN MemberMatches ELSE MemberIpos

\* What an orchestrator observes of a response text (see Text); value is
\* what the orchestrator returns of the value parsed: the value itself, or
\* its matches / ipos member.
Observe(kind, text) ==
  LET stripped == stripFences(text)
      firstBrace == indexOf(stripped, "{")
      lastBrace == lastIndexOf(stripped, "}")
      parsed == JSONParse(substring(stripped, firstBrace, lastBrace + 1))
  IN  [Text(text = <<>>,
            \E n \in 1..Len(text) : text[n] = Fence,
            isRefusal(stripped),
            Length(stripped) < 500,
            IF firstBrace = -1 \/ lastBrace = -1 THEN "none"
            ELSE IF ~parsed.ok THEN "invalid"
            ELSE parsed.type,
            IF kind \in {"screener", "ipoList"} THEN "[]"
            ELSE ValueText(parsed),
            ListMember(kind) \in parsed.members,
            {"json"})
       EXCEPT !.stripped = stripped]

\* The cores of the texts explored
Cores ==
  {<<>>,
   <<"{", "}">>,
   <<"{", MemberA, "}">>,
   <<"{", MemberMatches, "}">>,
   <<"{", MemberA, MemberIpos, "}">>,
   <<Fence, "json", "{", MemberA, "}", Fence>>,
   <<"json", " ", Fence, "json", " ", "{", MemberA, MemberMatches,
     MemberIpos, "}", " ", Fence>>,
   <<"1">>,
   <<"{", MemberA, "}", "{", MemberA, "}">>,
   <<"{", "json", "}">>,
   <<RefusalCaps>>,
   <<Refusal, Prose>>,
   <<Refusal, " ", Prose>>}

AffixTokens == {"{", "}", Fence, "json", " ", Refusal}

Affixes == UNION {[1..n -> AffixTokens] : n \in 0..MaxAffix}

\* The response texts explored
Texts == {a \o c \o b : a \in Affixes, b \in Affixes, c \in Cores}

ExtractInit ==
  /\ RetryIdle
  /\ HandleIdle
  /\ apiKey = TRUE
  /\ storageWorks = TRUE
  /\ localStorage = NothingStored
  /\ now = 0
  /\ marketCache = NoEntry
  /\ screenerCache = [k \in CacheKeys |-> NoEntry]
  /\ lastScreenerQuery = NoQuery
  /\ ipoListCache = NoEntry
  /\ session = {}
  /\ inflight = <<>>
  /\ done = NoneDone
  /\ storedBy = [k \in CacheKeys |-> NoQuery]
  /\ responseText \in Texts
  /\ extractKind \in ReportKinds
  /\ ChatIdle
  /\ RaceIdle
  /\ DashIdle

\* A report orchestrator from the model's response to its end: it stores
\* and returns the value extracted, or throws what handleApiError throws
\* in its catch block.
ExtractReport ==
  /\ done = NoneDone
  /\ LET x == extract(extractKind, Observe(extractKind, responseText))
         call == Call(extractKind,
                      IF extractKind = "screener" THEN AAPL ELSE NoQuery,
                      FALSE)
     IN  IF x.ok THEN Succeed(call, x.value) ELSE Fail(call, x.error)
  /\ UNCHANGED <<apiKey, storageWorks, now, session, inflight>>
  /\ UNCHANGED <<retryVars, handleVars, extractVars, chatVars, raceVars,
                 dashVars>>

ExtractNext == ExtractReport

SpecExtract == ExtractInit /\ [][ExtractNext]_vars

\* ------------------------------------------------------------------------
\* ChatAssistant.handleSend (part_000 lines 392-481)
\* ------------------------------------------------------------------------
\* A ChatMessage. An id is Date.now().toString(), modelled by the number;
\* 0 stands for the id 'welcome'. A content is a text and the exchange
\* (run of handleSend) the text belongs to.
ChatMessage(id, role, content, isLite, timestamp) ==
  [id |-> id, role |-> role, content |-> content, isLite |-> isLite,
   timestamp |-> timestamp]

Content(text, n) == [text |-> text, of |-> n]

\* Lines 393-400
Welcome == ChatMessage(0, "ai", Content("Hello!", 0), "undef", 1)

\* What a chat orchestrator may resolve with
ChatAnswers(kind) == {chatText(kind, retryOperation(run, 0)) : run \in Runs}

ChatInit ==
  /\ RetryIdle
  /\ HandleIdle
  /\ ExtractIdle
  /\ apiKey \in BOOLEAN
  /\ storageWorks = TRUE
  /\ localStorage = NothingStored
  /\ now = 1
  /\ marketCache = NoEntry
  /\ screenerCache = <<>>
  /\ lastScreenerQuery = NoQuery
  /\ ipoListCache = NoEntry
  /\ session = {}
  /\ inflight = <<>>
  /\ done = NoneDone
  /\ storedBy = <<>>
  /\ messages = <<Welcome>>
  /\ isTyping = FALSE
  /\ sent = 0
  /\ liteCall = 0
  /\ pending = <<>>
  /\ RaceIdle
  /\ DashIdle

ChatFrame ==
  /\ UNCHANGED <<apiKey, storageWorks, cacheVars, session, inflight, done,
                 storedBy>>
  /\ UNCHANGED <<retryVars, handleVars, extractVars, raceVars, dashVars>>

\* Lines 426-447: handleSend up to its await of the lite call. The send
\* button is disabled while isTyping (line 566).
HandleSend ==
  /\ ~isTyping
  /\ sent < MaxExchanges
  /\ messages' = Append(messages,
        ChatMessage(now, "user", Content("input", sent + 1), "undef", now))
  /\ isTyping' = TRUE
  /\ sent' = sent + 1
  /\ liteCall' = sent + 1
  /\ UNCHANGED <<now, pending>>
  /\ ChatFrame

\* Lines 447-468 and 478-480: the lite call resolved; the lite message is
\* appended and the detailed call is started.
LiteResolves(text) ==
  /\ liteCall # 0
  /\ apiKey
  /\ messages' = Append(messages,
        ChatMessage(now + 1, "ai", Content(text, liteCall), "true", now))
  /\ pending' = Append(pending, [id |-> now + 1, of |-> liteCall])
  /\ isTyping' = FALSE
  /\ liteCall' = 0
  /\ UNCHANGED <<now, sent>>
  /\ ChatFrame

\* Lines 470-480: the lite call rejected (the credential is missing).
LiteRejects ==
  /\ liteCall # 0
  /\ ~apiKey
  /\ messages' = Append(messages,
        ChatMessage(now, "ai",
                    Content("Sorry, I'm having trouble connecting right now.", 0),
                    "undef", now))
  /\ isTyping' = FALSE
  /\ liteCall' = 0
  /\ UNCHANGED <<now, sent, pending>>
  /\ ChatFrame

\* The continuation of the detailed call, appending its answer
DetailedResolvesAppending(i, text) ==
  /\ i \in 1..Len(pending)
  /\ messages' = Append(messages,
        ChatMessage(pending[i].id, "ai", Content(text, pending[i].of),
                    "false", now))
  /\ pending' = Remove(pending, i)
  /\ UNCHANGED <<now, isTyping, sent, liteCall>>
  /\ ChatFrame

\* Lines 462-468: the continuation of the i-th detailed call awaited
DetailedResolves(i, text) ==
  /\ i \in 1..Len(pending)
  /\ messages' =
        [k \in 1..Len(messages) |->
           IF messages[k].id = pending[i].id
             THEN [messages[k] EXCEPT !.content = Content(text, pending[i].of),
                                      !.isLite = "false"]
             ELSE messages[k]]
  /\ pending' = Remove(pending, i)
  /\ UNCHANGED <<now, isTyping, sent, liteCall>>
  /\ ChatFrame

\* Date.now() advances.
ChatTick ==
  /\ now < MaxTime
  /\ now' = now + 1
  /\ UNCHANGED chatVars
  /\ ChatFrame

LiteSettles ==
  \/ \E text \in ChatAnswers("chatLite") : LiteResolves(text)
  \/ LiteRejects

DetailedSettles ==
  \E i \in 1..Len(pending) :
    \E text \in ChatAnswers("chatDetailed") : DetailedResolves(i, text)

ChatNext ==
  \/ HandleSend
  \/ LiteSettles
  \/ DetailedSettles
  \/ ChatTick

SpecChat == ChatInit /\ [][ChatNext]_vars

\* ------------------------------------------------------------------------
\* Claims about retryOperation (checked under SpecRetry)
\* ------------------------------------------------------------------------
AllRetryable(log) == \A j \in 1..Len(log) : log[j].retryable

\* C1: when the first k invocations (k <= 2) fail with failures classified
\* as rate-limited or server-transient and invocation k+1 succeeds,
\* retryOperation resolves with that invocation's value after exactly k+1
\* invocations and exactly k waits; after two rate-limited (429) failures
\* the waits are 5000 and 10000 ms, the second at least twice the first.
C1_RetryThenSucceed ==
  retryPc = "resolved" =>
    LET k == Len(rejections)
    IN  /\ k <= 2
        /\ AllRetryable(rejections)
        /\ retryResult = returned
        /\ retryResult \in Values
        /\ invocations = k + 1
        /\ Len(waits) = k
        /\ (k = 2 /\ rejections[1].quota /\ rejections[2].quota) =>
              /\ invocations = 3
              /\ waits = <<5000, 10000>>
              /\ waits[2] >= 2 * waits[1]

C1_Witness ==
  /\ retryPc = "resolved"
  /\ Len(rejections) = 2
  /\ rejections[1].status = 429 /\ rejections[1].quota
  /\ rejections[2].status = 429 /\ rejections[2].quota
  /\ invocations = 3
  /\ waits = <<5000, 10000>>

\* C2: a failure classified as neither rate-limited nor server-transient
\* is thrown at once: it is the last rejection, no wait and no invocation
\* follow it, and when it is the first failure the operation ran once.
C2_NonRetryableThrownAtOnce ==
  \A j \in 1..Len(rejections) :
    ~rejections[j].retryable =>
      /\ j = Len(rejections)
      /\ retryPc = "thrown"
      /\ thrown.id = j
      /\ invocations = j
      /\ Len(waits) = j - 1

C2_Witness ==
  /\ retryPc = "thrown"
  /\ Len(rejections) = 1
  /\ ~rejections[1].retryable
  /\ raised.status = 400
  /\ invocations = 1
  /\ waits = <<>>

\* C3: the operation is invoked at most maxRetries times; when all
\* maxRetries invocations fail with retryable failures, the failure thrown
\* is the one the last invocation raised and no wait follows it.
C3_AttemptsCapped ==
  /\ invocations <= maxRetries
  /\ Len(rejections) <= maxRetries
  /\ (Len(rejections) = maxRetries /\ AllRetryable(rejections)) =>
        /\ retryPc = "thrown"
        /\ thrown = lastError
        /\ thrown.id = maxRetries
        /\ invocations = maxRetries
        /\ Len(waits) = maxRetries - 1

C3_Witness ==
  /\ retryPc = "thrown"
  /\ Len(rejections) = maxRetries
  /\ AllRetryable(rejections)
  /\ thrown.id = maxRetries

\* C4 as stated: the failure thrown by retryOperation has its status and
\* message exactly as the operation raised them.
C4_ThrownAsRaised ==
  retryPc = "thrown" =>
    /\ thrown.id = raised.id
    /\ thrown.status = raised.status
    /\ thrown.msg = raised.msg

\* C4 amended: the failure thrown is the object the operation raised; its
\* status and message are as raised unless the message embeds a JSON
\* body with an error member whose message is absent or a string: then
\* status is the nested code (the failure's own status or code when there
\* is none) and message is the nested message (when there is one).
C4_ThrownPatchedOnlyByUnwrap ==
  retryPc = "thrown" =>
    LET m == raised.msg
    IN  /\ thrown.id = raised.id
        /\ thrown.code = raised.code
        /\ thrown.title = raised.title
        /\ thrown.isRetryable = raised.isRetryable
        /\ thrown.details = raised.details
        /\ (m.body # "err" \/ m.bmsg = "nonstring") => thrown = raised
        /\ (m.body = "err" /\ m.bmsg # "nonstring") =>
              /\ thrown.status =
                    (IF m.bcode # 0 THEN m.bcode
                     ELSE IF raised.status # 0 THEN raised.status
                     ELSE raised.code)
              /\ (m.bmsg = "str" => thrown.msg = PlainMsg("", m.bkws))
              /\ (m.bmsg = "absent" => thrown.msg = m)

C4_Witness ==
  /\ retryPc = "thrown"
  /\ raised.msg.body = "err"
  /\ raised.msg.bmsg = "str"
  /\ raised.msg.bcode = 429
  /\ raised.status = 0
  /\ thrown.status = 429
  /\ thrown.msg # raised.msg

\* ------------------------------------------------------------------------
\* Claims about handleApiError (checked under SpecHandle)
\* ------------------------------------------------------------------------
\* A failure that already has a title, a message and a defined isRetryable
DescriptorShaped(f) ==
  f.title # "" /\ f.msg.kind = "str" /\ f.isRetryable # "undef"

\* C5: handleApiError rethrows a failure that already has a title, a
\* message and a defined isRetryable flag with title, message, details and
\* isRetryable unchanged, and does not apply the unwrapping of a nested
\* status/message to it.
C5_StructuredPassesUnchanged ==
  (handlePc = "thrown" /\ DescriptorShaped(caught)) =>
    /\ handled.title = caught.title
    /\ handled.msg = caught.msg
    /\ handled.details = caught.details
    /\ handled.isRetryable = caught.isRetryable
    /\ handled.status = caught.status

\* The table of section 4.3, in the order of the branches of lines 131-167
ErrorTable ==
  << [title |-> "Network Connection Error", codes |-> {},
      words |-> {"failed to fetch", "networkerror", "network"}, retry |-> "true"],
     [title |-> "Invalid Request", codes |-> {400},
      words |-> {"400", "invalid argument"}, retry |-> "false"],
     [title |-> "Authentication Error", codes |-> {401},
      words |-> {"401", "api key"}, retry |-> "false"],
     [title |-> "Permission Denied", codes |-> {403},
      words |-> {"403"}, retry |-> "false"],
     [title |-> "Resource Not Found", codes |-> {404},
      words |-> {"404"}, retry |-> "false"],
     [title |-> "Rate Limit Exceeded", codes |-> {429},
      words |-> {"429", "quota", "resource_exhausted"}, retry |-> "true"],
     [title |-> "Server Error", codes |-> {500},
      words |-> {"500"}, retry |-> "true"],
     [title |-> "Service Overloaded", codes |-> {503},
      words |-> {"503", "overloaded"}, retry |-> "true"],
     [title |-> "Data Parsing Error", codes |-> {},
      words |-> {"json", "parse"}, retry |-> "true"],
     [title |-> "Analysis Failed", codes |-> {},
      words |-> {}, retry |-> "true"] >>

\* The rows that name a status code
StatusRows == {n \in 1..Len(ErrorTable) : ErrorTable[n].codes # {}}

RowOfStatus(st) == CHOOSE n \in StatusRows : st \in ErrorTable[n].codes

\* C6 as stated: for a raw failure whose status code is in the table, the
\* descriptor thrown has the title and isRetryable of that status code's
\* row, whatever the message.
C6_RowOfStatusCode ==
  (/\ handlePc = "thrown"
   /\ ~DescriptorShaped(caught)
   /\ \E n \in StatusRows : caught.status \in ErrorTable[n].codes) =>
    /\ handled.title = ErrorTable[RowOfStatus(caught.status)].title
    /\ handled.isRetryable = ErrorTable[RowOfStatus(caught.status)].retry

\* The status and the text handleApiError classifies: those of the nested
\* JSON error body when the message embeds one.
EffectiveStatus(f) ==
  IF f.msg.body = "err" /\ f.msg.bcode # 0 THEN f.msg.bcode
  ELSE IF f.status # 0 THEN f.status ELSE f.code

EffectiveText(f) ==
  IF f.msg.body = "err" /\ f.msg.bmsg = "str" THEN f.msg.bkws
  ELSE TextKws(f.msg)

RowMatches(n, f) ==
  \/ EffectiveStatus(f) \in ErrorTable[n].codes
  \/ \E w \in ErrorTable[n].words : w \in EffectiveText(f)
  \/ n = 9 /\ f.syntax
  \/ n = Len(ErrorTable)

FirstRow(f) ==
  CHOOSE n \in 1..Len(ErrorTable) :
    RowMatches(n, f) /\ \A k \in 1..(n - 1) : ~RowMatches(k, f)

\* C6 amended: for a raw failure, handleApiError throws the descriptor of
\* the first table row, in the order network, 400, 401, 403, 404, 429, 500,
\* 503, parse, generic, that matches the failure by status code or by a
\* keyword of its message, status and message being those of the nested
\* JSON error body when the message embeds one; so the row is that of the
\* status code whenever the text holds no keyword of an earlier row. A
\* nested message that is not a string gets no descriptor: line 124 throws
\* a TypeError.
C6_FirstMatchingRow ==
  (handlePc = "thrown" /\ ~DescriptorShaped(caught)) =>
    IF caught.msg.body = "err" /\ caught.msg.bmsg = "nonstring"
      THEN handled.title = "" /\ handled.isRetryable = "undef"
      ELSE /\ handled.title = ErrorTable[FirstRow(caught)].title
           /\ handled.isRetryable = ErrorTable[FirstRow(caught)].retry
           /\ (/\ EffectiveStatus(caught) \in {400, 401, 403, 404, 429, 500, 503}
                /\ \A k \in 1..(RowOfStatus(EffectiveStatus(caught)) - 1) :
                      ErrorTable[k].words \cap EffectiveText(caught) = {})
               => handled.title =
                    ErrorTable[RowOfStatus(EffectiveStatus(caught))].title

C6_Witness ==
  /\ handlePc = "thrown"
  /\ caught.status = 503
  /\ caught.msg = PlainMsg("", {"overloaded"})
  /\ handled.title = "Service Overloaded"
  /\ handled.isRetryable = "true"
  /\ handled.details = caught.msg

\* ------------------------------------------------------------------------
\* Claims about the orchestrators and their caches (checked under Spec)
\* ------------------------------------------------------------------------
NoneInFlight == \A t \in session : inflight[t] = 0

\* C7: without the credential every orchestrator call is rejected, with a
\* value that has a title, a message and isRetryable false; it invokes the
\* model for no call and serves no call from a cache.
C7_NoCredentialFailsFast ==
  (~apiKey /\ done.state # "none") =>
    /\ done.state = "rejected"
    /\ DescriptorShaped(done.error)
    /\ done.error.isRetryable = "false"
    /\ ~done.fromCache
    /\ NoneInFlight

\* C8: every rejection of the five report orchestrators is a value with a
\* title, a message that is a string and a boolean isRetryable.
C8_RejectionsAreDescriptors ==
  (done.state = "rejected" /\ done.call.kind \in ReportKinds) =>
    /\ done.error.title # ""
    /\ done.error.msg.kind = "str"
    /\ done.error.isRetryable \in {"true", "false"}

\* The TTLs the claim states, in milliseconds
ClaimedTTL(kind) ==
  CASE kind = "market" -> 5 * 60000
    [] kind = "screener" -> 15 * 60000
    [] kind = "ipoList" -> 60 * 60000

\* The entry a call of a cached orchestrator finds when it starts, the
\* screener's under the lower-cased, trimmed query
FoundBy(call) ==
  CASE call.kind = "market" -> marketCache
    [] call.kind = "ipoList" -> ipoListCache
    [] OTHER -> screenerCache[IF call.query \in Spellings
                                THEN <<"a", "a", "p", "l">> ELSE call.query]

\* An entry changes in a step only to the payload a fetch for it resolved
\* with in that step, stamped with the time of the step.
StoredOnlyByFetch(entry, entryAfter, kind) ==
  entryAfter # entry =>
    /\ done'.state = "resolved" /\ ~done'.fromCache
    /\ done'.call.kind = kind
    /\ entryAfter = Entry(done'.value, now)

\* C9: a non-forced call of a cached orchestrator is served from the cache
\* exactly when an entry for its key exists and now - timestamp < TTL
\* (5, 15, 60 minutes); it then returns the entry's payload, which is the
\* payload the latest successful fetch for the key stored, and invokes
\* nothing; otherwise the model is invoked.
C9_CachedExactlyWhenFresh ==
  [][/\ LET c == done'.call
            entry == FoundBy(c)
        IN  (/\ c.kind \in CachedKinds
             /\ ~c.force
             /\ done'.state = "started" \/ done'.fromCache) =>
              /\ done'.fromCache <=>
                    (entry.present /\ now - entry.timestamp < ClaimedTTL(c.kind))
              /\ done'.fromCache =>
                    /\ done'.state = "resolved"
                    /\ done'.value = entry.data
                    /\ inflight' = inflight
                    /\ marketCache' = marketCache
                    /\ screenerCache' = screenerCache
                    /\ ipoListCache' = ipoListCache
              /\ done'.state = "started" =>
                    inflight'[Target(c.kind, c.query)]
                      = inflight[Target(c.kind, c.query)] + 1
     /\ StoredOnlyByFetch(marketCache, marketCache', "market")
     /\ StoredOnlyByFetch(ipoListCache, ipoListCache', "ipoList")
     /\ \A k \in DOMAIN screenerCache :
          StoredOnlyByFetch(screenerCache[k], screenerCache'[k], "screener")
    ]_vars

C9_Witness ==
  /\ done.fromCache
  /\ done.call = Call("ipoList", NoQuery, FALSE)
  /\ done.value = "p2"
  /\ ipoListCache = Entry("p2", 0)
  /\ now = IPO_CACHE_TTL - 1

\* C10: getCacheKey is idempotent, and the screenStocks calls for 'AAPL',
\* ' aapl ' and 'Aapl' read and write one entry: a successful fetch of any
\* of them stores it, and a non-forced call of any of them is served its
\* payload, without a model call, while now - timestamp < 15 minutes.
C10_SpellingsShareOneEntry ==
  [][/\ \A q \in Queries \cup CacheKeys \cup {<<>>, <<" ", " ">>} :
          getCacheKey(getCacheKey(q)) = getCacheKey(q)
     /\ LET c == done'.call
            entry == screenerCache[<<"a", "a", "p", "l">>]
            fresh == entry.present /\ now - entry.timestamp < 15 * 60000
        IN  (c.kind = "screener" /\ c.query \in Spellings) =>
              /\ (done'.state = "resolved" /\ ~done'.fromCache) =>
                    screenerCache'[<<"a", "a", "p", "l">>]
                      = Entry(done'.value, now)
              /\ done'.fromCache => fresh /\ done'.value = entry.data
              /\ (done'.state = "started" /\ ~c.force) => ~fresh
    ]_vars

C10_Witness ==
  /\ done.fromCache
  /\ done.call = Call("screener", AAPL, FALSE)
  /\ storedBy[<<"a", "a", "p", "l">>] = <<" ", "a", "a", "p", "l", " ">>
  /\ done.value = screenerCache[<<"a", "a", "p", "l">>].data
  /\ lastScreenerQuery = AAPL

\* C11: generateAnalysis and generateIPOReport use no cache: with the
\* credential, a step of one of their calls either starts to await the
\* model or ends a call that awaited it, never with a cached payload, and
\* it changes no cache, no persisted item and not lastScreenerQuery.
C11_ReportsNeverCached ==
  [][LET c == done'.call
         t == Target(c.kind, c.query)
     IN  (apiKey /\ c.kind \in {"analysis", "ipoReport"}) =>
           /\ ~done'.fromCache
           /\ \/ done'.state = "started" /\ inflight'[t] = inflight[t] + 1
              \/ /\ done'.state \in {"resolved", "rejected"}
                 /\ inflight[t] > 0
                 /\ inflight'[t] = inflight[t] - 1
           /\ marketCache' = marketCache
           /\ screenerCache' = screenerCache
           /\ ipoListCache' = ipoListCache
           /\ lastScreenerQuery' = lastScreenerQuery
           /\ localStorage' = localStorage
    ]_vars

\* one of two identical calls has returned its report, the other still
\* awaits the model, and the caches are as they were loaded
C11_Witness ==
  /\ done.state = "resolved"
  /\ done.call.kind = "ipoReport"
  /\ done.value = "p2"
  /\ inflight[Target("ipoReport", NoQuery)] = 1
  /\ marketCache = Entry("p1", 0)
  /\ ipoListCache = Entry("p1", 0)

\* ------------------------------------------------------------------------
\* Claims about the response extraction (checked under SpecExtract)
\* ------------------------------------------------------------------------
\* The text is below 500 characters and holds a refusal phrase, in either
\* spelling.
ShortRefusal(text) ==
  /\ Length(text) < 500
  /\ \E n \in 1..Len(text) : text[n] \in {Refusal, RefusalCaps}

\* C12: generateAnalysis rejects with the Ticker Not Found descriptor
\* (isRetryable false, details the text) exactly when the text, after the
\* markers are removed and it is trimmed, is shorter than 500 characters
\* and contains a refusal phrase in any letter case, whether or not it
\* holds a JSON object; a text of 500 characters or more is never a refusal.
C12_RefusalBeforeParsing ==
  (extractKind = "analysis" /\ done.state # "none") =>
    LET text == stripFences(responseText)
    IN  IF ShortRefusal(text)
          THEN /\ done.state = "rejected"
               /\ done.error.title = "Ticker Not Found"
               /\ done.error.isRetryable = "false"
               /\ done.error.details.lit = text
          ELSE done.error.title # "Ticker Not Found"

C12_Witness ==
  /\ extractKind = "analysis"
  /\ responseText = <<Fence, "{", MemberA, "}", Refusal>>
  /\ done.state = "rejected"
  /\ done.error.title = "Ticker Not Found"
  /\ done.error.details.lit = <<"{", MemberA, "}", Refusal>>

\* The positions of the first "{" and of the last "}", 0 when absent
FirstOpen(text) ==
  LET at == {n \in 1..Len(text) : text[n] = "{"}
  IN  IF at = {} THEN 0 ELSE CHOOSE n \in at : \A k \in at : n <= k

LastClose(text) ==
  LET at == {n \in 1..Len(text) : text[n] = "}"}
  IN  IF at = {} THEN 0 ELSE CHOOSE n \in at : \A k \in at : n >= k

\* What an orchestrator returns of a value parsed
ReturnedOf(kind, parsed) ==
  IF kind \in {"screener", "ipoList"}
    THEN (IF ListMember(kind) \in parsed.members THEN "[]" ELSE "undefined")
    ELSE ValueText(parsed)

\* C13: a report orchestrator that returns a value returns the JSON parse
\* of the substring from the first "{" to the last "}" of the text, after
\* the markers are removed and it is trimmed (the matches / ipos member
\* of it for screenStocks / fetchIPOList).
C13_ParsesFirstToLastBrace ==
  done.state = "resolved" =>
    LET text == stripFences(responseText)
        open == FirstOpen(text)
        close == LastClose(text)
    IN  /\ open > 0
        /\ close > 0
        /\ open < close
        /\ JSONParse(SubSeq(text, open, close)).ok
        /\ done.value
             = ReturnedOf(extractKind, JSONParse(SubSeq(text, open, close)))

\* The text holds no "{" or no "}"
BraceMissing(text) ==
  \/ \A n \in 1..Len(text) : text[n] # "{"
  \/ \A n \in 1..Len(text) : text[n] # "}"

\* No cache, persisted item or lastScreenerQuery has been written
NothingWritten ==
  /\ marketCache = NoEntry
  /\ ipoListCache = NoEntry
  /\ \A k \in DOMAIN screenerCache : screenerCache[k] = NoEntry
  /\ lastScreenerQuery = NoQuery
  /\ localStorage = NothingStored

\* C14: a text without "{" or without "}" produces no report and no cache
\* write, and the call fails with the Data Parsing Error descriptor,
\* isRetryable true.
C14_NoBraceIsParsingError ==
  (done.state # "none" /\ BraceMissing(responseText)) =>
    /\ done.state = "rejected"
    /\ NothingWritten
    /\ done.error.title = "Data Parsing Error"
    /\ done.error.isRetryable = "true"

\* C14 as the code has it: the descriptor is Data Parsing Error except for
\* a short refusal in generateAnalysis (Ticker Not Found, isRetryable
\* false) and an empty response in getMarketOverview (Analysis Failed,
\* isRetryable true).
C14_NoBraceFails ==
  (done.state # "none" /\ BraceMissing(responseText)) =>
    /\ done.state = "rejected"
    /\ NothingWritten
    /\ IF extractKind = "analysis" /\ ShortRefusal(stripFences(responseText))
         THEN /\ done.error.title = "Ticker Not Found"
              /\ done.error.isRetryable = "false"
       ELSE IF extractKind = "market" /\ responseText = <<>>
         THEN /\ done.error.title = "Analysis Failed"
              /\ done.error.isRetryable = "true"
       ELSE /\ done.error.title = "Data Parsing Error"
            /\ done.error.isRetryable = "true"

C14_Witness ==
  /\ extractKind = "screener"
  /\ responseText = <<"{", "1">>
  /\ done.state = "rejected"
  /\ done.error.title = "Data Parsing Error"
  /\ done.error.isRetryable = "true"
  /\ NothingWritten

\* ------------------------------------------------------------------------
\* Claims about the chat (checked under SpecChat)
\* ------------------------------------------------------------------------
\* C15: the step that starts a detailed call has appended the lite answer
\* as an AI message with isLite true under the id the call is matched on;
\* the step in which a detailed call resolves keeps the length of the
\* list, every id, role and position, gives every message of the matched
\* id the detailed answer and isLite false, and changes no other message.
C15_LiteThenReplacedInPlace ==
  [][/\ Len(pending') > Len(pending) =>
          /\ pending' = Append(pending, pending'[Len(pending')])
          /\ messages' = Append(messages, messages'[Len(messages')])
          /\ LET m == messages'[Len(messages')]
             IN  /\ m.role = "ai"
                 /\ m.isLite = "true"
                 /\ m.id = pending'[Len(pending')].id
                 /\ m.content \in {Content(t, liteCall) :
                                     t \in ChatAnswers("chatLite")}
     /\ Len(pending') < Len(pending) =>
          \E i \in 1..Len(pending) :
            /\ pending' = Remove(pending, i)
            /\ Len(messages') = Len(messages)
            /\ \E t \in ChatAnswers("chatDetailed") :
                 \A k \in 1..Len(messages) :
                   /\ messages'[k].id = messages[k].id
                   /\ messages'[k].role = messages[k].role
                   /\ messages'[k].timestamp = messages[k].timestamp
                   /\ IF messages[k].id = pending[i].id
                        THEN /\ messages'[k].content = Content(t, pending[i].of)
                             /\ messages'[k].isLite = "false"
                        ELSE messages'[k] = messages[k]
    ]_vars

\* the lite message of the first exchange has been replaced in place while
\* the second exchange still shows its lite answer
C15_Witness ==
  /\ Len(messages) = 5
  /\ messages[3].isLite = "false"
  /\ messages[3].content = Content("the model's text", 1)
  /\ messages[5].isLite = "true"
  /\ Len(pending) = 1
  /\ pending[1].of = 2
  /\ messages[5].id = pending[1].id
  /\ messages[3].id # messages[5].id

\* ------------------------------------------------------------------------
\* Claims about getScreenerState (checked under Spec)
\* ------------------------------------------------------------------------
\* What getScreenerState returns when it returns null
NullState == [isNull |-> TRUE, query |-> NoQuery, data |-> ""]

\* getScreenerState with the query replaced by its cache key
getScreenerStateNormalized ==
  IF lastScreenerQuery # NoQuery
    THEN LET cacheKey == getCacheKey(lastScreenerQuery)
             cached == screenerCache[cacheKey]
         IN  IF cached # NoEntry
               THEN [isNull |-> FALSE, query |-> cacheKey, data |-> cached.data]
               ELSE NullState
    ELSE NullState

\* getScreenerState: the last served query and the entry under its key, or
\* null when no query was served or the key has no entry
getScreenerState ==
  IF lastScreenerQuery # NoQuery
    THEN LET cacheKey == getCacheKey(lastScreenerQuery)
             cached == screenerCache[cacheKey]
         IN  IF cached # NoEntry
               THEN [isNull |-> FALSE, query |-> lastScreenerQuery,
                     data |-> cached.data]
               ELSE NullState
    ELSE NullState

\* C16: getScreenerState returns null until a screenStocks call has
\* completed with a result; a step in which a screenStocks call returns a
\* result (from the cache or from a fetch) makes it return the query as
\* that call received it together with the payload the call returned; every
\* other step, a failing screenStocks call included, leaves what it returns
\* unchanged.
C16_ScreenerStateIsLastServed ==
  /\ getScreenerState = NullState
  /\ [](done.state = "resolved" /\ done.call.kind = "screener"
          => getScreenerState = [isNull |-> FALSE,
                                 query |-> done.call.query,
                                 data |-> done.value])
  /\ [][\/ done'.state = "resolved" /\ done'.call.kind = "screener"
        \/ /\ lastScreenerQuery' = lastScreenerQuery
           /\ screenerCache' = screenerCache
        \/ getScreenerState' = getScreenerState]_vars

\* a query spelled differently from the one that filled the cache has been
\* served from the cache, and getScreenerState returns the new spelling
C16_Witness ==
  /\ done.state = "resolved"
  /\ done.call.kind = "screener"
  /\ done.fromCache
  /\ done.call.query = <<" ", "a", "a", "p", "l", " ">>
  /\ storedBy[getCacheKey(done.call.query)] = AAPL
  /\ getScreenerState = [isNull |-> FALSE, query |-> done.call.query,
                         data |-> screenerCache[<<"a", "a", "p", "l">>].data]

\* ------------------------------------------------------------------------
\* Claims about the persistent store (checked under Spec)
\* ------------------------------------------------------------------------
\* The in-memory entry of a cached report kind after the step
EntryAfter(kind) == IF kind = "market" THEN marketCache' ELSE ipoListCache'

\* C17: when the store fails or holds nothing, module initialisation leaves
\* the market and IPO-list entries empty; a call that finds no entry is
\* never served from the cache; and with a failing store a call that
\* fetched and parsed a payload still resolves with it, the in-memory
\* entry holds that payload and the stored items are untouched.
C17_StoreFailureIsCacheMiss ==
  /\ (~storageWorks \/ localStorage = NothingStored) =>
        marketCache = NoEntry /\ ipoListCache = NoEntry
  /\ [][/\ (/\ done'.call.kind \in CachedKinds
            /\ EntryOf(done'.call) = NoEntry) => ~done'.fromCache
        /\ (/\ ~storageWorks
            /\ done'.state = "resolved"
            /\ ~done'.fromCache
            /\ done'.call.kind \in {"market", "ipoList"}) =>
               /\ EntryAfter(done'.call.kind) = Entry(done'.value, now)
               /\ localStorage' = localStorage]_vars

\* The store holds an item of an earlier session but fails: the market
\* brief was fetched, returned and kept in memory, the item is unchanged.
C17_Witness ==
  /\ ~storageWorks
  /\ localStorage = StoredEarlier
  /\ done.state = "resolved"
  /\ done.call.kind = "market"
  /\ ~done.call.force
  /\ ~done.fromCache
  /\ done.value = "p2"
  /\ marketCache = Entry("p2", now)

\* ------------------------------------------------------------------------
\* Claims about the payloads cached (checked under SpecExtract)
\* ------------------------------------------------------------------------
\* The values that are a JSON object
ObjectValues == {ValueText([type |-> "object", members |-> m]) :
                   m \in SUBSET Members}

\* C18: every entry of the screener cache and the entry of the IPO-list
\* cache hold a list (the matches or ipos member of the object parsed),
\* and the entry of the market cache holds an object.
C18_CachePayloadShaped ==
  /\ \A k \in DOMAIN screenerCache :
       screenerCache[k].present => screenerCache[k].data = "[]"
  /\ ipoListCache.present => ipoListCache.data = "[]"
  /\ marketCache.present => marketCache.data \in ObjectValues

\* ------------------------------------------------------------------------
\* Claims about the backoff of retryOperation (checked under SpecRetry)
\* ------------------------------------------------------------------------
\* C19 as stated: each wait is twice the preceding wait.
C19_EachWaitDoubles ==
  \A k \in 2..Len(waits) : waits[k] = 2 * waits[k - 1]

\* C19 amended: the wait after the k-th failure is the base delay of that
\* failure (5000 ms when it is rate-limited, initialDelay otherwise) times
\* 2^(k-1), so a wait is twice the preceding one when both failures are of
\* the same class; after a rate-limited failure followed by a server
\* failure the second wait is 4/5 of the first, and after a server failure
\* followed by a rate-limited one it is five times the first.
C19_WaitIsBaseTimesPowerOfTwo ==
  /\ Len(waits) <= Len(rejections)
  /\ \A k \in 1..Len(waits) :
       waits[k] = (IF rejections[k].quota THEN 5000 ELSE initialDelay)
                    * 2 ^ (k - 1)
  /\ \A k \in 2..Len(waits) :
       /\ rejections[k].quota = rejections[k - 1].quota =>
            waits[k] = 2 * waits[k - 1]
       /\ rejections[k - 1].quota /\ ~rejections[k].quota =>
            5 * waits[k] = 4 * waits[k - 1]
       /\ ~rejections[k - 1].quota /\ rejections[k].quota =>
            waits[k] = 5 * waits[k - 1]

\* a rate-limited failure followed by a server failure: 5000 then 4000 ms
C19_Witness ==
  /\ waits = <<5000, 4000>>
  /\ rejections[1].quota
  /\ ~rejections[2].quota
  /\ rejections[2].retryable

\* ------------------------------------------------------------------------
\* Claims about parse failures (checked under SpecHandle)
\* ------------------------------------------------------------------------
\* C20: a SyntaxError of JSON.parse is normalized to the descriptor titled
\* Data Parsing Error with isRetryable true, whatever its message says.
C20_SyntaxErrorIsDataParsingError ==
  (handlePc = "thrown" /\ caught.syntax) =>
    /\ handled.title = "Data Parsing Error"
    /\ handled.isRetryable = "true"

\* ------------------------------------------------------------------------
\* Claims about the details of a descriptor (checked under SpecHandle)
\* ------------------------------------------------------------------------
\* error.message || String(error) of a failure
MessageOrStringForm(f) == IF f.msg.kind # "absent" THEN f.msg ELSE StringForm

\* C21 as stated: for a raw failure the descriptor thrown has details equal
\* to the failure's message as it was raised, or to its string form when
\* it has no message.
C21_DetailsIsRawMessage ==
  (handlePc = "thrown" /\ caught.title = "") =>
    handled.details = MessageOrStringForm(caught)

\* C21 amended: details is the failure's message as raised (its string form
\* when it has none) unless the message embeds a JSON body with an error
\* member that has a message: then details is that nested message when it
\* is a string, and when it is not a string no descriptor is thrown but
\* the TypeError of line 124.
C21_DetailsIsMessageAfterUnwrap ==
  (handlePc = "thrown" /\ caught.title = "") =>
    LET m == caught.msg
    IN  IF m.kind = "str" /\ m.body = "err" /\ m.bmsg = "str"
          THEN /\ handled.details = PlainMsg("", m.bkws)
               /\ handled.title # ""
        ELSE IF m.kind = "str" /\ m.body = "err" /\ m.bmsg = "nonstring"
          THEN handled = ToLowerCaseTypeError
        ELSE /\ handled.details = MessageOrStringForm(caught)
             /\ handled.title # ""

\* a message that wraps a body whose error has a message: details is the
\* nested message, not the message raised
C21_Witness ==
  /\ handlePc = "thrown"
  /\ caught.title = ""
  /\ caught.msg.body = "err"
  /\ caught.msg.bmsg = "str"
  /\ caught.msg.bkws = {"quota"}
  /\ caught.msg.kws = {"network"}
  /\ handled.details = PlainMsg("", {"quota"})
  /\ handled.details # caught.msg

\* ------------------------------------------------------------------------
\* Claims about refusals outside generateAnalysis (checked under SpecExtract)
\* ------------------------------------------------------------------------
\* C22: for getMarketOverview, screenStocks, fetchIPOList and
\* generateIPOReport too, a response that after stripping is shorter than
\* 500 characters and contains a refusal phrase is rejected with the Ticker
\* Not Found descriptor, isRetryable false, and not with a parse error.
C22_RefusalCheckedByEveryOrchestrator ==
  (/\ extractKind \in {"market", "screener", "ipoList", "ipoReport"}
   /\ done.state # "none"
   /\ ShortRefusal(stripFences(responseText))) =>
     /\ done.state = "rejected"
     /\ done.error.title = "Ticker Not Found"
     /\ done.error.isRetryable = "false"

\* ------------------------------------------------------------------------
\* Claims about forced refreshes (checked under Spec)
\* ------------------------------------------------------------------------
\* C23: with the credential, a call of getMarketOverview, screenStocks or
\* fetchIPOList with forceRefresh true is never served from the cache: it
\* starts to await the model whatever the entry for its key. When a call
\* that awaited the model resolves (forceRefresh is not read again after
\* the await), the entry for its key is its payload stamped with the time
\* of the step, which is fresh, and a non-forced call served from the
\* cache returns the payload of the entry it finds.
C23_ForcedRefreshReplacesEntry ==
  [][LET c == done'.call
         t == Target(c.kind, c.query)
     IN  /\ (apiKey /\ c.kind \in CachedKinds /\ c.force) =>
               /\ ~done'.fromCache
               /\ done'.state = "started"
               /\ inflight'[t] = inflight[t] + 1
         /\ (/\ c.kind \in CachedKinds
             /\ done'.state = "resolved"
             /\ ~done'.fromCache) =>
               LET after == CASE c.kind = "market" -> marketCache'
                              [] c.kind = "ipoList" -> ipoListCache'
                              [] OTHER -> screenerCache'[getCacheKey(c.query)]
               IN  /\ inflight[t] > 0
                   /\ after = Entry(done'.value, now)
                   /\ Fresh(after, TTL(c.kind))
         /\ (c.kind \in CachedKinds /\ done'.fromCache) =>
               /\ ~c.force
               /\ done'.value = EntryOf(c).data
    ]_vars

\* a fetch has replaced the market entry one millisecond before the entry
\* of the earlier session expired, and a forced call made at that instant
\* awaits the model although the new entry is fresh
C23_Witness ==
  /\ done.state = "started"
  /\ done.call = Call("market", NoQuery, TRUE)
  /\ now = MARKET_CACHE_TTL - 1
  /\ marketCache = Entry("p2", MARKET_CACHE_TTL - 1)
  /\ Fresh(marketCache, MARKET_CACHE_TTL)
  /\ inflight[Target("market", NoQuery)] = 1

\* ------------------------------------------------------------------------
\* Claims about failed fetches (checked under Spec)
\* ------------------------------------------------------------------------
\* An entry that is present stays present, and changes only in a step in
\* which a fetch of its kind resolves
KeptUnlessFetched(entry, entryAfter, kind) ==
  /\ entry.present => entryAfter.present
  /\ entryAfter # entry =>
       /\ done'.state = "resolved"
       /\ ~done'.fromCache
       /\ done'.call.kind = kind

\* C24: a step in which a call is rejected changes no cache entry, no
\* timestamp, no stored item and not lastScreenerQuery; no step removes an
\* entry; an entry changes only when a fetch for its key resolves; and a
\* call served from the cache returns the payload of the entry as it is,
\* so after a failed refresh the old payload is still served within its TTL.
C24_FailedFetchChangesNothing ==
  [][/\ done'.state = "rejected" =>
           /\ marketCache' = marketCache
           /\ ipoListCache' = ipoListCache
           /\ screenerCache' = screenerCache
           /\ lastScreenerQuery' = lastScreenerQuery
           /\ localStorage' = localStorage
     /\ KeptUnlessFetched(marketCache, marketCache', "market")
     /\ KeptUnlessFetched(ipoListCache, ipoListCache', "ipoList")
     /\ \A k \in DOMAIN screenerCache :
          /\ KeptUnlessFetched(screenerCache[k], screenerCache'[k], "screener")
          /\ screenerCache'[k] # screenerCache[k] =>
               getCacheKey(done'.call.query) = k
     /\ (done'.fromCache /\ done'.call.kind \in CachedKinds) =>
           /\ EntryOf(done'.call).present
           /\ done'.value = EntryOf(done'.call).data
           /\ now - EntryOf(done'.call).timestamp < TTL(done'.call.kind)
    ]_vars

\* a fetch of the market brief has failed one millisecond before the entry
\* of the earlier session expires: the entry is as it was and still fresh
C24_Witness ==
  /\ done.state = "rejected"
  /\ done.call.kind = "market"
  /\ apiKey
  /\ done.error.title = "Data Parsing Error"
  /\ now = MARKET_CACHE_TTL - 1
  /\ marketCache = Entry("p1", 0)
  /\ localStorage.MARKET = Entry("p1", 0)
  /\ Fresh(marketCache, MARKET_CACHE_TTL)

\* ------------------------------------------------------------------------
\* Claims about concurrent fetches (checked under Spec)
\* ------------------------------------------------------------------------
\* How many of the calls awaited are for target t
Awaited(t) == Cardinality({i \in 1..Len(order) : order[i].target = t})

\* C25: every call that reached its await is still awaited until it
\* settles, overtaken or not; and whenever a fetch of a cached kind
\* resolves, the entry for its key is its payload stamped with the time of
\* the step and, for the screener, lastScreenerQuery is its query, also
\* when a call made later for the same key has stored its payload before.
C25_LastCompletedWins ==
  [][/\ \A t \in session : inflight[t] = Awaited(t)
     /\ LET c == done'.call
        IN  (/\ c.kind \in CachedKinds
             /\ done'.state = "resolved"
             /\ ~done'.fromCache) =>
               /\ CASE c.kind = "market" -> marketCache' = Entry(done'.value, now)
                    [] c.kind = "ipoList" -> ipoListCache' = Entry(done'.value, now)
                    [] OTHER ->
                         /\ screenerCache'[getCacheKey(c.query)]
                              = Entry(done'.value, now)
                         /\ lastScreenerQuery' = c.query
               /\ Len(order') = Len(order) - 1
     /\ lateWrite' =>
          /\ done'.state = "resolved"
          /\ ~done'.fromCache
          /\ \E i \in 1..Len(order) :
               /\ order[i].overtaken
               /\ order[i].target = Target(done'.call.kind, done'.call.query)
    ]_vars

\* 'AAPL' was searched before ' aapl '; the later search stored its result
\* first, and now the earlier one has resolved and overwritten it
C25_Witness ==
  /\ lateWrite
  /\ order = <<>>
  /\ done.state = "resolved"
  /\ done.call.query = AAPL
  /\ session = {Target("screener", AAPL),
                Target("screener", <<" ", "a", "a", "p", "l", " ">>)}
  /\ lastScreenerQuery = AAPL
  /\ storedBy[<<"a", "a", "p", "l">>] = AAPL
  /\ screenerCache[<<"a", "a", "p", "l">>] = Entry(done.value, now)

\* ------------------------------------------------------------------------
\* Claims about the ids of chat messages (checked under SpecChat)
\* ------------------------------------------------------------------------
\* The positions of the messages that have the id
WithId(id) == {k \in 1..Len(messages) : messages[k].id = id}

\* C26: the id a detailed call awaited is matched on belongs to exactly one
\* message of the list, the lite AI message of its exchange, so that its
\* answer replaces the content of that message only.
C26_DetailedIdIsUnique ==
  \A i \in 1..Len(pending) :
    /\ Cardinality(WithId(pending[i].id)) = 1
    /\ \A k \in WithId(pending[i].id) :
         /\ messages[k].role = "ai"
         /\ messages[k].isLite = "true"

\* ------------------------------------------------------------------------
\* Claims about the MarketDashboard (checked under SpecDash)
\* ------------------------------------------------------------------------
\* C27: the interval is set only while the dashboard is mounted and is
\* cleared by the step that unmounts it; a call made by the effect, the
\* initial load included, is getMarketOverview(false) and leaves the
\* interval set; a call made by the interval is
\* getMarketOverview(true), made while the interval is set, which with the
\* credential starts to await the model whatever is in flight or cached;
\* and once the dashboard is gone no call is made at all.
C27_IntervalRefreshWhileMounted ==
  [][/\ intervalId => mounted = "yes"
     /\ mounted' = "gone" => ~intervalId'
     /\ dashCall'.source = "effect" =>
           /\ done'.call = Call("market", NoQuery, FALSE)
           /\ intervalId'
     /\ dashCall'.source = "interval" =>
           /\ intervalId /\ intervalId'
           /\ mounted = "yes"
           /\ done'.call = Call("market", NoQuery, TRUE)
           /\ ~done'.fromCache
           /\ apiKey =>
                /\ done'.state = "started"
                /\ inflight'[Market] = inflight[Market] + 1
     /\ mounted = "gone" =>
           /\ dashCall'.source = "none"
           /\ inflight'[Market] <= inflight[Market]
    ]_vars

\* the interval has fired while an earlier call still awaited the model
\* and the brief shown is fresh in the cache
C27_Witness ==
  /\ dashCall = DashCall("interval", TRUE)
  /\ done.state = "started"
  /\ inflight[Market] = 2
  /\ dashData = "p2"
  /\ Fresh(marketCache, MARKET_CACHE_TTL)
  /\ mounted = "yes"
  /\ intervalId

\* ------------------------------------------------------------------------
\* Claims about retryOperation and handleApiError together (checked under
\* SpecHandle)
\* ------------------------------------------------------------------------
\* C28: a raw failure that retryOperation classifies as rate-limited or
\* server-transient, and so retries, is normalized by handleApiError to a
\* descriptor with isRetryable true.
C28_RetriedIsRetryable ==
  (handlePc = "thrown" /\ caught.title = "" /\ Retryable(caught)) =>
    handled.isRetryable = "true"

\* ------------------------------------------------------------------------
\* Claims about termination (checked under SpecRetryFair)
\* ------------------------------------------------------------------------
\* C29: when every invocation settles and every wait ends, a call of
\* retryOperation resolves or throws; it invokes the operation at most
\* maxRetries times and waits at most maxRetries - 1 times, at most 5000 ms
\* the first time and at most 10000 ms the second.
C29_RetryTerminates ==
  /\ [](/\ invocations <= maxRetries
        /\ Len(waits) <= maxRetries - 1
        /\ Len(waits) <= invocations
        /\ \A k \in 1..Len(waits) : waits[k] <= 5000 * 2 ^ (k - 1))
  /\ (retryPc \in {"invoking", "waiting"}) ~> (retryPc \in {"resolved", "thrown"})

\* a server failure and a rate-limited failure were waited for and the
\* third invocation's failure has been thrown
C29_Witness ==
  /\ retryPc = "thrown"
  /\ invocations = maxRetries
  /\ waits = <<2000, 10000>>
  /\ Len(rejections) = 3
  /\ rejections[3].retryable

\* ------------------------------------------------------------------------
\* Claims about the chat orchestrators (checked under SpecChat)
\* ------------------------------------------------------------------------
\* The fixed texts of lines 820-823 and 855-858
FallbackTexts(kind) ==
  IF kind = "chatLite"
    THEN {"I'm thinking...", "I'm processing that..."}
    ELSE {"Sorry, I encountered an error fetching detailed information.",
          "I couldn't generate a detailed response."}

\* C30: with the credential, whatever the model call does (it fails after
\* the retries, responds with no text or with a text), a chat orchestrator
\* resolves with a non-empty string, a fixed text in the first two cases;
\* so the lite message appended and the detailed answer that replaces it
\* are non-empty. Without the credential the lite call rejects: the
\* error message is appended and no detailed call is ever started.
C30_ChatAlwaysAnswers ==
  [][/\ \A kind \in ChatKinds : \A run \in Runs :
          LET r == retryOperation(run, 0)
              text == chatText(kind, r)
          IN  /\ text # ""
              /\ (~r.ok \/ r.text.empty) => text \in FallbackTexts(kind)
     /\ Len(pending') > Len(pending) =>
          /\ apiKey
          /\ messages'[Len(messages')].isLite = "true"
          /\ messages'[Len(messages')].content.text # ""
     /\ Len(pending') < Len(pending) =>
          /\ apiKey
          /\ \A k \in 1..Len(messages') :
               messages'[k].isLite = "false" => messages'[k].content.text # ""
     /\ ~apiKey =>
          /\ pending' = <<>>
          /\ (liteCall # 0 /\ liteCall' = 0) =>
                messages' = Append(messages,
                  ChatMessage(now, "ai",
                    Content("Sorry, I'm having trouble connecting right now.", 0),
                    "undef", now))
    ]_vars

\* the detailed call of the first exchange failed after its retries and
\* its fixed text has replaced the lite answer, itself the fixed text for
\* an empty response
C30_Witness ==
  /\ apiKey
  /\ pending = <<>>
  /\ Len(messages) = 3
  /\ messages[3].isLite = "false"
  /\ messages[3].content =
        Content("Sorry, I encountered an error fetching detailed information.", 1)

====
